---- MODULE Spec2Model ----
\* Process supervision (run_cmd), adaptive sampling (run_sampled), the
\* compile caches and the benchmark matrix (bench_all) of bench.ts, as state
\* machines.
\*
\* Strings are sequences of tokens: a token is one character of process
\* output (" " or "x") or one literal of the source ("timed out after ").
\* String concatenation is \o, startsWith is IsPrefix, trim() is Trim.
\* Durations are whole ticks of the monotonic clock.
EXTENDS Integers, Sequences, FiniteSets, TLC

VARIABLES
  CMD_TIMEOUT_MS,   \* bench.ts:27, set once by main before any command runs
  ACTIVE_CHILDREN,  \* bench.ts:123, the registry of live child pids
  inv,              \* per run_cmd call: the closure state of bench.ts:358-373
  child,            \* per run_cmd call: the child process group and its events
  todo,             \* the run_cmd calls the caller has yet to make
  smp,              \* one run_sampled session (bench.ts:487-507)
  BEND_JS_CACHE,    \* bench.ts:780, key -> path of the compiled .mjs
  BEND_HVM_CACHE,   \* bench.ts:781, key -> path of the compiled .hvm
  HVM_BIN_CACHE,    \* bench.ts:782, key -> path of the compiled .bin
  reqs,             \* history: the requests made to the caches, in order
  rows,             \* bench_all: the rows discover_rows returned
  modes,            \* bench_all: the selected modes, in command-line order
  cells,            \* row.cells[mode.flag].state, by row and mode index
  cur,              \* bench_all: the position of its loops
  had_error,        \* bench_all: had_error
  ran,              \* history: the cells whose mode.run was invoked
  SHUTTING_DOWN,    \* bench.ts:124
  proc,             \* the harness process: its temporary directory, its exit
                    \* code, and the history of its clean-ups
  cli               \* main: the command line, the tools found, and how far
                    \* main has come

cachevars == <<BEND_JS_CACHE, BEND_HVM_CACHE, HVM_BIN_CACHE, reqs>>

mxvars == <<rows, modes, cells, cur, had_error, ran>>

shvars == <<SHUTTING_DOWN, proc, cli>>

vars == <<CMD_TIMEOUT_MS, ACTIVE_CHILDREN, inv, child, todo, smp,
          cachevars, mxvars, shvars>>

\* ------------------------------------------------------------------ bounds

\* The output ceiling of bench.ts:26 (64 MiB), scaled to bytes of the model.
MAX_BUFFER == 2

\* 'data' events delivered to one invocation.
MaxChunks == 4

\* ----------------------------------------------------------------- strings

TIMEOUT_PREFIX == <<"timed out after ">>

IsPrefix(p, s) ==
  /\ Len(p) <= Len(s)
  /\ \A k \in 1..Len(p) : s[k] = p[k]

IsWs(ch) == ch = " "

RECURSIVE TrimStart(_)
TrimStart(s) ==
  IF s # <<>> /\ IsWs(Head(s)) THEN TrimStart(Tail(s)) ELSE s

RECURSIVE TrimEnd(_)
TrimEnd(s) ==
  IF s # <<>> /\ IsWs(s[Len(s)]) THEN TrimEnd(SubSeq(s, 1, Len(s) - 1)) ELSE s

\* String.prototype.trim
Trim(s) == TrimEnd(TrimStart(s))

\* Buffer.concat(bufs).toString("utf8") on ASCII chunks
RECURSIVE BufConcat(_)
BufConcat(bufs) ==
  IF bufs = <<>> THEN <<>> ELSE Head(bufs) \o BufConcat(Tail(bufs))

\* Array.prototype.join
RECURSIVE Join(_, _)
Join(parts, sep) ==
  IF parts = <<>> THEN <<>>
  ELSE IF Len(parts) = 1 THEN <<parts[1]>>
  ELSE <<parts[1], sep>> \o Join(Tail(parts), sep)

\* ------------------------------------------------------------ the commands

Calls == {"c1", "c2"}

\* The pid the OS gives the child of each call; live children have distinct pids.
PidOf == [c \in Calls |-> IF c = "c1" THEN "101" ELSE "102"]

NULL == "null"

\* null where a number is expected (no duration or exit status is negative)
null_num == 0 - 1

\* The command line of each call.
CmdOf == [c \in Calls |-> [cmd |-> "hvm", args |-> <<"main.hvm">>]]

\* var cmd_txt = [cmd].concat(args).join(" ")
cmd_txt(c) == Join(<<CmdOf[c].cmd>> \o CmdOf[c].args, " ")

\* JSON.stringify of a plain string
JsonStr(s) == <<"\"", s, "\"">>

\* The errors spawn() reports through the child's 'error' event.
SpawnErrs ==
  { [code |-> "ENOENT", message |-> <<"spawn ", "hvm", " ENOENT">>],
    [code |-> "EACCES", message |-> <<"spawn ", "hvm", " EACCES">>] }

NoErr == [code |-> "none", message |-> <<>>]

\* The values --timeout may leave in CMD_TIMEOUT_MS (default 20 min).
TimeoutChoices == {20 * 60 * 1000, 1500}

\* What a child writes, one piece per 'data' event: a blank, a letter, or
\* the words "timed out after " of its own.
Chunks == {<<" ">>, <<"x">>, <<"timed out after ">>}

Procs == {"leader", "desc"}

\* ------------------------------------------------- run_cmd: closure state

\* The closure of one run_cmd call before the call is made.
\* promise/value are the Promise run_cmd returns; n_resolve, n_reject,
\* n_clear and n_delete count the calls of resolve, reject, clearTimeout and
\* ACTIVE_CHILDREN.delete made by this invocation.
InvInit ==
  [ promise   |-> "uncalled",
    value     |-> <<>>,
    done      |-> FALSE,
    out_len   |-> 0,
    err_len   |-> 0,
    out_bufs  |-> <<>>,
    err_bufs  |-> <<>>,
    pid       |-> NULL,
    timer     |-> "unset",
    n_resolve |-> 0,
    n_reject  |-> 0,
    n_clear   |-> 0,
    n_delete  |-> 0 ]

\* The child of one call before spawn: no process, no event.
\* code: "run" while the leader has not ended, "0"/"1" its exit code,
\* "null" when a signal ended it, "-2" the errno a failed spawn closes with.
\* errev: the 'error' event ("none", "pending", "emitted") and err its error.
\* chunks: the 'data' events its output has yet to cause.
\* killed: the processes a SIGKILL of the harness ended.
ChildInit ==
  [ alive  |-> {},
    killed |-> {},
    code   |-> "run",
    closed |-> FALSE,
    errev  |-> "none",
    err    |-> NoErr,
    late   |-> FALSE,
    chunks |-> MaxChunks ]

\* process.kill(target, "SIGKILL") on the processes of `who` that are alive.
sigkill(k, who) ==
  [k EXCEPT !.alive  = @ \ who,
            !.killed = @ \cup (k.alive \cap who),
            !.code  = IF "leader" \in (k.alive \cap who) THEN "null" ELSE @]

\* process.kill(-pid) throws ESRCH when the group has no process left.
group_signal_ok(k) == k.alive # {}

\* Mutant of kill_pg: the group signal dropped, only the leader pid signalled.
kill_pg_leader_only(k) == sigkill(k, {"leader"})

\* One process.kill(target, "SIGKILL"): it throws ESRCH when it finds no
\* process to signal.
process_kill(k, who) ==
  [k |-> sigkill(k, who), threw |-> (k.alive \cap who) = {}]

\* Mutant of kill_pg_run: the second process.kill outside any try.
kill_pg_run_uncaught(k) ==
  LET a == process_kill(k, Procs)
      b == process_kill(k, {"leader"})
  IN IF ~a.threw
     THEN [k |-> a.k, sent |-> <<"group">>, raised |-> FALSE]
     ELSE [k |-> b.k, sent |-> <<"group", "leader">>, raised |-> b.threw]

\* The body of kill_pg: try { process.kill(-pid); return } catch {} and
\* then try { process.kill(pid) } catch {}. sent lists the signals tried,
\* raised tells whether an error leaves the function.
kill_pg_run(k) ==
  LET a == process_kill(k, Procs)
      b == process_kill(k, {"leader"})
  IN IF ~a.threw
     THEN [k |-> a.k, sent |-> <<"group">>, raised |-> FALSE]
     ELSE [k |-> b.k, sent |-> <<"group", "leader">>, raised |-> FALSE]

\* kill_pg: the whole group first, the leader pid if that throws.
kill_pg(k) == kill_pg_run(k).k

\* kill_pg(pid) called from a callback of run_cmd; late records a call made
\* when the invocation had already finalized (done).
kill_pg_from(k, done) == [kill_pg(k) EXCEPT !.late = @ \/ done]

\* resolve(out) / reject(new Error(msg)): a Promise settles once.
resolve(s, out) ==
  [s EXCEPT !.promise   = IF @ = "pending" THEN "fulfilled" ELSE @,
            !.value     = IF s.promise = "pending" THEN out ELSE @,
            !.n_resolve = @ + 1]

reject(s, msg) ==
  [s EXCEPT !.promise  = IF @ = "pending" THEN "rejected" ELSE @,
            !.value    = IF s.promise = "pending" THEN msg ELSE @,
            !.n_reject = @ + 1]

clearTimeout(s) ==
  [s EXCEPT !.timer   = IF @ = "armed" THEN "cleared" ELSE @,
            !.n_clear = @ + 1]

\* if (pid !== null) ACTIVE_CHILDREN.delete(pid), on the closure's counters
\* and on the registry.
delete_count(s) ==
  IF s.pid # NULL THEN [s EXCEPT !.n_delete = @ + 1] ELSE s

\* Mutant of registry_delete: the whole registry is emptied.
registry_delete_all(reg, s) == {}

\* Mutant of registry_delete: the pid is left in the registry.
registry_delete_skip(reg, s) == reg

registry_delete(reg, s) ==
  IF s.pid # NULL THEN reg \ {s.pid} ELSE reg

fin_ok(c, s, out) ==
  IF s.done
  THEN /\ inv' = [inv EXCEPT ![c] = s]
       /\ UNCHANGED ACTIVE_CHILDREN
  ELSE /\ inv' = [inv EXCEPT ![c] =
                    resolve(delete_count(clearTimeout([s EXCEPT !.done = TRUE])), out)]
       /\ ACTIVE_CHILDREN' = registry_delete(ACTIVE_CHILDREN, s)

\* Mutant of fin_err: the "already finished" guard dropped.
fin_err_unguarded(c, s, msg) ==
  /\ inv' = [inv EXCEPT ![c] =
               reject(delete_count(clearTimeout([s EXCEPT !.done = TRUE])), msg)]
  /\ ACTIVE_CHILDREN' = registry_delete(ACTIVE_CHILDREN, s)

fin_err(c, s, msg) ==
  IF s.done
  THEN /\ inv' = [inv EXCEPT ![c] = s]
       /\ UNCHANGED ACTIVE_CHILDREN
  ELSE /\ inv' = [inv EXCEPT ![c] =
                    reject(delete_count(clearTimeout([s EXCEPT !.done = TRUE])), msg)]
       /\ ACTIVE_CHILDREN' = registry_delete(ACTIVE_CHILDREN, s)

\* ------------------------------------------------------ run_cmd: messages

overflow_msg(c) == <<"output exceeded max buffer: ">> \o cmd_txt(c)

\* Mutant of timeout_msg: the timeout printed in seconds.
timeout_msg_secs(c) ==
  TIMEOUT_PREFIX \o <<ToString(CMD_TIMEOUT_MS \div 1000), "ms: ">> \o cmd_txt(c)

timeout_msg(c) ==
  TIMEOUT_PREFIX \o <<ToString(CMD_TIMEOUT_MS), "ms: ">> \o cmd_txt(c)

\* Mutant of spawn_err_msg: every spawn error reported as "not found".
spawn_err_msg_notfound(cmd, err) ==
  <<"not found in $PATH: ">> \o JsonStr(cmd)

spawn_err_msg(cmd, err) ==
  IF err.code = "ENOENT"
  THEN <<"not found in $PATH: ">> \o JsonStr(cmd)
  ELSE IF Len(err.message) > 0 THEN err.message
  ELSE <<"Error">>

err_is_timeout(msg) == IsPrefix(TIMEOUT_PREFIX, msg)

\* Mutant of close_msg: stdout preferred to stderr.
close_msg_stdout_first(c, out, err) ==
  LET m1 == Trim(out)
      m2 == IF Len(m1) = 0 THEN Trim(err) ELSE m1
  IN  IF Len(m2) = 0 THEN <<"command failed: ">> \o cmd_txt(c) ELSE m2

\* The diagnostic of a non-zero close: stderr, else stdout, else generic.
close_msg(c, out, err) ==
  LET m1 == Trim(err)
      m2 == IF Len(m1) = 0 THEN Trim(out) ELSE m1
  IN  IF Len(m2) = 0 THEN <<"command failed: ">> \o cmd_txt(c) ELSE m2

\* ------------------------------------------------------------- shutdown

Pids == {PidOf[c] : c \in Calls}

\* The harness process once the module is loaded: TMP_DIR made by
\* mkdtempSync, no exit yet. code is the argument of process.exit;
\* n_cleanup counts the executions of cleanup_all, n_rm those of rmSync, and
\* swept the kill_pg calls cleanup_children made for each pid, sig the
\* signal on_signal shut down for.
ProcInit ==
  [ tmp       |-> TRUE,
    code      |-> null_num,
    n_cleanup |-> 0,
    n_rm      |-> 0,
    sig       |-> "none",
    swept     |-> [p \in Pids |-> 0] ]

\* No command line: main is not part of the run.
CliNone == [pc |-> "none", args |-> <<>>, tools |-> {}]

\* The process has not called process.exit.
Alive == proc.code = null_num

\* What the clean-up functions read and write.
World == [reg |-> ACTIVE_CHILDREN, child |-> child, proc |-> proc]

\* Mutant of cleanup_children: the registry is cleared, nothing is killed.
cleanup_children_clear_only(w) == [w EXCEPT !.reg = {}]

\* Mutant of cleanup_children: the children are killed, the registry kept.
cleanup_children_keep(w) ==
  [w EXCEPT
     !.child = [c \in Calls |->
                  IF PidOf[c] \in w.reg THEN kill_pg(w.child[c])
                  ELSE w.child[c]],
     !.proc.swept = [p \in Pids |-> IF p \in w.reg THEN @[p] + 1 ELSE @[p]]]

\* for (var pid of ACTIVE_CHILDREN) kill_pg(pid); ACTIVE_CHILDREN.clear()
cleanup_children(w) ==
  [w EXCEPT
     !.child = [c \in Calls |->
                  IF PidOf[c] \in w.reg THEN kill_pg(w.child[c])
                  ELSE w.child[c]],
     !.proc.swept = [p \in Pids |-> IF p \in w.reg THEN @[p] + 1 ELSE @[p]],
     !.reg = {}]

\* fs.rmSync(TMP_DIR, {recursive: true, force: true}): an absent directory
\* is no error.
cleanup_tmp(w) == [w EXCEPT !.proc.tmp = FALSE, !.proc.n_rm = @ + 1]

cleanup_all(w) ==
  LET w1 == cleanup_tmp(cleanup_children(w))
  IN [w1 EXCEPT !.proc.n_cleanup = @ + 1]

\* process.exit(code): the 'exit' listener of bench.ts:170 runs, then the
\* process ends.
process_exit(w, code) ==
  LET w1 == cleanup_all(w)
  IN [w1 EXCEPT !.proc.code = code]

SetWorld(w) ==
  /\ ACTIVE_CHILDREN' = w.reg
  /\ child' = w.child
  /\ proc' = w.proc

Signals == {"SIGINT", "SIGTERM"}

\* Mutant of on_signal: the clean-up is done and the process goes on.
on_signal_no_exit(sig) ==
  /\ Alive
  /\ IF SHUTTING_DOWN
     THEN UNCHANGED <<ACTIVE_CHILDREN, child, proc, SHUTTING_DOWN>>
     ELSE /\ SHUTTING_DOWN' = TRUE
          /\ SetWorld([cleanup_all(World) EXCEPT !.proc.sig = sig])
  /\ UNCHANGED <<cachevars, mxvars, CMD_TIMEOUT_MS, inv, todo, smp, cli>>

\* The SIGINT / SIGTERM listener: the whole of on_signal, which does not
\* return when it calls process.exit.
on_signal(sig) ==
  /\ Alive
  /\ IF SHUTTING_DOWN
     THEN UNCHANGED <<ACTIVE_CHILDREN, child, proc, SHUTTING_DOWN>>
     ELSE /\ SHUTTING_DOWN' = TRUE
          /\ SetWorld([process_exit(cleanup_all(World),
                                    IF sig = "SIGINT" THEN 130 ELSE 143)
                         EXCEPT !.proc.sig = sig])
  /\ UNCHANGED <<cachevars, mxvars, CMD_TIMEOUT_MS, inv, todo, smp, cli>>

\* main().then(code => process.exit(code)): every command main awaited has
\* settled.
MainExit ==
  /\ Alive
  /\ todo = {}
  /\ \A c \in Calls : inv[c].promise \in {"fulfilled", "rejected"}
  /\ \E code \in {0, 1} : SetWorld(process_exit(World, code))
  /\ UNCHANGED <<cachevars, mxvars, CMD_TIMEOUT_MS, SHUTTING_DOWN, inv, todo, smp, cli>>

\* ------------------------------------------------------- run_cmd: actions

\* The synchronous body of the Promise executor: spawn, register the pid,
\* install the handlers, arm the deadline timer.
run_cmd(c) ==
  /\ c \in todo
  /\ todo' = todo \ {c}
  /\ \/ \E ps \in {{"leader"}, Procs} :
          /\ child' = [child EXCEPT ![c] = [@ EXCEPT !.alive = ps]]
          /\ inv' = [inv EXCEPT ![c] =
                       [@ EXCEPT !.promise = "pending", !.pid = PidOf[c],
                                 !.timer = "armed"]]
          /\ ACTIVE_CHILDREN' = ACTIVE_CHILDREN \cup {PidOf[c]}
     \/ \E e \in SpawnErrs :
          /\ child' = [child EXCEPT ![c] =
                         [@ EXCEPT !.errev = "pending", !.err = e, !.code = "-2"]]
          /\ inv' = [inv EXCEPT ![c] =
                       [@ EXCEPT !.promise = "pending", !.timer = "armed"]]
          /\ UNCHANGED ACTIVE_CHILDREN
  /\ UNCHANGED <<cachevars, mxvars, shvars, CMD_TIMEOUT_MS, smp>>

\* Mutant of on_chunk: the ceiling applied to stdout alone.
on_chunk_stdout_only(c, stream, chunk) ==
  LET s1 == IF stream = "stdout"
            THEN [inv[c] EXCEPT !.out_bufs = Append(@, chunk),
                                !.out_len  = @ + Len(chunk)]
            ELSE [inv[c] EXCEPT !.err_bufs = Append(@, chunk),
                                !.err_len  = @ + Len(chunk)]
      k1 == [child[c] EXCEPT !.chunks = @ - 1]
  IN  IF s1.out_len > MAX_BUFFER
      THEN /\ child' = [child EXCEPT ![c] =
                          IF s1.pid # NULL THEN kill_pg_from(k1, inv[c].done)
                          ELSE k1]
           /\ fin_err(c, s1, overflow_msg(c))
      ELSE /\ child' = [child EXCEPT ![c] = k1]
           /\ inv' = [inv EXCEPT ![c] = s1]
           /\ UNCHANGED ACTIVE_CHILDREN

\* Mutant of on_chunk: a total of exactly the ceiling is an overflow.
on_chunk_at_ceiling(c, stream, chunk) ==
  LET s1 == IF stream = "stdout"
            THEN [inv[c] EXCEPT !.out_bufs = Append(@, chunk),
                                !.out_len  = @ + Len(chunk)]
            ELSE [inv[c] EXCEPT !.err_bufs = Append(@, chunk),
                                !.err_len  = @ + Len(chunk)]
      k1 == [child[c] EXCEPT !.chunks = @ - 1]
  IN  IF s1.out_len + s1.err_len >= MAX_BUFFER
      THEN /\ child' = [child EXCEPT ![c] =
                          IF s1.pid # NULL THEN kill_pg_from(k1, inv[c].done)
                          ELSE k1]
           /\ fin_err(c, s1, overflow_msg(c))
      ELSE /\ child' = [child EXCEPT ![c] = k1]
           /\ inv' = [inv EXCEPT ![c] = s1]
           /\ UNCHANGED ACTIVE_CHILDREN

\* on_chunk, with the stream's add_len applied to out_len or err_len.
on_chunk(c, stream, chunk) ==
  LET s1 == IF stream = "stdout"
            THEN [inv[c] EXCEPT !.out_bufs = Append(@, chunk),
                                !.out_len  = @ + Len(chunk)]
            ELSE [inv[c] EXCEPT !.err_bufs = Append(@, chunk),
                                !.err_len  = @ + Len(chunk)]
      k1 == [child[c] EXCEPT !.chunks = @ - 1]
  IN  IF s1.out_len + s1.err_len > MAX_BUFFER
      THEN /\ child' = [child EXCEPT ![c] =
                          IF s1.pid # NULL THEN kill_pg_from(k1, inv[c].done)
                          ELSE k1]
           /\ fin_err(c, s1, overflow_msg(c))
      ELSE /\ child' = [child EXCEPT ![c] = k1]
           /\ inv' = [inv EXCEPT ![c] = s1]
           /\ UNCHANGED ACTIVE_CHILDREN

\* A 'data' event can come until the streams have closed.
DataReady(c) ==
  /\ inv[c].promise # "uncalled"
  /\ inv[c].pid # NULL
  /\ ~child[c].closed
  /\ child[c].chunks > 0

OnStdoutData(c) ==
  /\ DataReady(c)
  /\ \E chunk \in Chunks : on_chunk(c, "stdout", chunk)
  /\ UNCHANGED <<cachevars, mxvars, shvars, CMD_TIMEOUT_MS, todo, smp>>

OnStderrData(c) ==
  /\ DataReady(c)
  /\ \E chunk \in Chunks : on_chunk(c, "stderr", chunk)
  /\ UNCHANGED <<cachevars, mxvars, shvars, CMD_TIMEOUT_MS, todo, smp>>

\* child.on("error"): spawn failed. The event is queued by spawn() itself
\* (process.nextTick), so it is delivered before any timer can fire.
OnError(c) ==
  /\ child[c].errev = "pending"
  /\ child' = [child EXCEPT ![c] = [@ EXCEPT !.errev = "emitted"]]
  /\ fin_err(c, inv[c], spawn_err_msg(CmdOf[c].cmd, child[c].err))
  /\ UNCHANGED <<cachevars, mxvars, shvars, CMD_TIMEOUT_MS, todo, smp>>

\* child.on("close"): the leader has ended and every holder of the pipes is
\* gone; or the spawn failed and its 'error' event has been delivered.
OnClose(c) ==
  /\ inv[c].promise # "uncalled"
  /\ ~child[c].closed
  /\ \/ inv[c].pid # NULL /\ child[c].alive = {}
     \/ inv[c].pid = NULL /\ child[c].errev = "emitted"
  /\ child' = [child EXCEPT ![c] = [@ EXCEPT !.closed = TRUE]]
  /\ LET out == BufConcat(inv[c].out_bufs)
         err == BufConcat(inv[c].err_bufs)
     IN  IF child[c].code = "0"
         THEN fin_ok(c, inv[c], out)
         ELSE fin_err(c, inv[c], close_msg(c, out, err))
  /\ UNCHANGED <<cachevars, mxvars, shvars, CMD_TIMEOUT_MS, todo, smp>>

\* Mutant of OnTimer: the group is killed and the call is left pending.
OnTimer_kill_only(c) ==
  /\ inv[c].timer = "armed"
  /\ child[c].errev # "pending"
  /\ inv' = [inv EXCEPT ![c] = [@ EXCEPT !.timer = "fired"]]
  /\ child' = [child EXCEPT ![c] =
                 IF inv[c].pid # NULL THEN kill_pg_from(@, inv[c].done) ELSE @]
  /\ UNCHANGED <<cachevars, mxvars, shvars, CMD_TIMEOUT_MS, ACTIVE_CHILDREN, todo, smp>>

\* Mutant of OnTimer: the call is rejected and the group is not killed.
OnTimer_fin_only(c) ==
  /\ inv[c].timer = "armed"
  /\ child[c].errev # "pending"
  /\ fin_err(c, [inv[c] EXCEPT !.timer = "fired"], timeout_msg(c))
  /\ UNCHANGED <<cachevars, mxvars, shvars, CMD_TIMEOUT_MS, child, todo, smp>>

\* The setTimeout callback of bench.ts:453. A cleared timer never fires.
OnTimer(c) ==
  /\ inv[c].timer = "armed"
  /\ child[c].errev # "pending"
  /\ LET s1 == [inv[c] EXCEPT !.timer = "fired"]
     IN  /\ child' = [child EXCEPT ![c] =
                        IF s1.pid # NULL THEN kill_pg_from(@, inv[c].done)
                        ELSE @]
         /\ fin_err(c, s1, timeout_msg(c))
  /\ UNCHANGED <<cachevars, mxvars, shvars, CMD_TIMEOUT_MS, todo, smp>>

\* The leader process ends by itself with an exit code, or by a signal that
\* is not the harness's (code null).
LeaderExit(c) ==
  /\ "leader" \in child[c].alive
  /\ \E code \in {"0", "1", "null"} :
       child' = [child EXCEPT ![c] =
                   [@ EXCEPT !.alive = @ \ {"leader"}, !.code = code]]
  /\ UNCHANGED <<cachevars, mxvars, shvars, CMD_TIMEOUT_MS, ACTIVE_CHILDREN, inv, todo, smp>>

\* A subprocess of the command ends by itself.
DescExit(c) ==
  /\ "desc" \in child[c].alive
  /\ child' = [child EXCEPT ![c] = [@ EXCEPT !.alive = @ \ {"desc"}]]
  /\ UNCHANGED <<cachevars, mxvars, shvars, CMD_TIMEOUT_MS, ACTIVE_CHILDREN, inv, todo, smp>>

\* ---------------------------------------------------------------- sampling

\* Bounds of the sampling configurations and of one trial's duration (ticks).
MaxWarmup == 2

MaxRuns == 3

MaxSecs == 3

MaxDur == 2

\* Every SampleCfg the sampler can be handed, valid or not.
SampleCfgs ==
  [ warmup   : 0..MaxWarmup,
    min_runs : 0..MaxRuns,
    max_runs : 0..MaxRuns,
    min_secs : 0..MaxSecs ]

\* sample_cfg_get: the configuration main passes down.
DEF_CFG == [warmup |-> 1, min_runs |-> 1, max_runs |-> 1, min_secs |-> 0]

NaN == [num |-> 0, den |-> 0]

\* Mutant of Mean: the total instead of the mean.
Mean_total(sum, cnt) == [num |-> sum, den |-> 1]

\* sum / cnt, kept as a fraction
Mean(sum, cnt) == [num |-> sum, den |-> cnt]

\* What one invocation of run_once may reject with.
RunErrs == {<<"exit 1">>, TIMEOUT_PREFIX \o <<"1.500", "s: ", "hvm">>}

\* run_once as run_sampled sees it: the durations one invocation may take
\* and whether it rejects ("never", "sometimes", "always").
OnceAny == [secs |-> 0..MaxDur, fail |-> "sometimes"]

OnceBroken == [secs |-> 0..MaxDur, fail |-> "always"]

\* The longest steady duration of the scenario sessions, in ticks of 0.1 s.
MaxSteady == 50

\* The scenario configuration {warmup=1, min_runs=3, max_runs=10,
\* min_secs=0.5}, min_secs in ticks of 0.1 s.
ScenarioCfg == [warmup |-> 1, min_runs |-> 3, max_runs |-> 10, min_secs |-> 5]

\* A run_once that takes d ticks at every invocation.
OnceSteady(d, fail) == [secs |-> {d}, fail |-> fail]

\* A run_sampled session: pc is "warmup" in the first loop, "timed" in the
\* second, "done" after return, "failed" after run_once rejected. calls
\* counts the invocations of run_once, durs lists the timed durations, last
\* is the outcome of the latest invocation and err what run_sampled itself
\* rejected with.
SmpStart(cfg, once) ==
  [ pc    |-> "warmup",
    cfg   |-> cfg,
    once  |-> once,
    i     |-> 0,
    sum   |-> 0,
    cnt   |-> 0,
    calls |-> 0,
    durs  |-> <<>>,
    last  |-> <<>>,
    err   |-> <<>>,
    ret   |-> NaN ]

\* Mutant of sample_needs_more: the "cnt === 0" rule dropped.
sample_needs_more_no_first(cnt, sum, cfg) ==
  IF cnt >= cfg.max_runs THEN FALSE
  ELSE IF cnt < cfg.min_runs /\ sum < cfg.min_secs THEN TRUE
  ELSE FALSE

\* Mutant of sample_needs_more: "||" for "&&".
sample_needs_more_or(cnt, sum, cfg) ==
  IF cnt = 0 THEN TRUE
  ELSE IF cnt >= cfg.max_runs THEN FALSE
  ELSE IF cnt < cfg.min_runs \/ sum < cfg.min_secs THEN TRUE
  ELSE FALSE

\* Mutant of sample_needs_more: "sum <= min_secs" for "sum < min_secs".
sample_needs_more_le(cnt, sum, cfg) ==
  IF cnt = 0 THEN TRUE
  ELSE IF cnt >= cfg.max_runs THEN FALSE
  ELSE IF cnt < cfg.min_runs /\ sum <= cfg.min_secs THEN TRUE
  ELSE FALSE

\* Mutant of sample_needs_more: min_runs alone decides, min_secs ignored.
sample_needs_more_runs_only(cnt, sum, cfg) ==
  IF cnt = 0 THEN TRUE
  ELSE IF cnt >= cfg.max_runs THEN FALSE
  ELSE IF cnt < cfg.min_runs THEN TRUE
  ELSE FALSE

sample_needs_more(cnt, sum, cfg) ==
  IF cnt = 0 THEN TRUE
  ELSE IF cnt >= cfg.max_runs THEN FALSE
  ELSE IF cnt < cfg.min_runs /\ sum < cfg.min_secs THEN TRUE
  ELSE FALSE

\* Mutant of once_throws: the rejection of run_once is swallowed.
once_throws_swallowed(s, e) ==
  [s EXCEPT !.calls = @ + 1, !.last = e]

\* "await run_once()" rejects with e: the exception leaves run_sampled,
\* which rejects with the same error.
once_throws(s, e) ==
  [s EXCEPT !.pc = "failed", !.calls = @ + 1, !.last = e, !.err = e]

\* Mutant of warmup_pending: one warmup call too many.
warmup_pending_le(s) == s.i <= s.cfg.warmup

\* The condition of the warmup loop.
warmup_pending(s) == s.i < s.cfg.warmup

\* Mutant of trial_ok: the trial is counted twice.
trial_ok_twice(s, secs) ==
  [s EXCEPT !.sum = @ + secs, !.cnt = @ + 2, !.calls = @ + 1,
            !.last = <<"ok">>, !.durs = Append(@, secs)]

\* A timed trial that took secs: sum += secs; cnt += 1.
trial_ok(s, secs) ==
  [s EXCEPT !.sum = @ + secs, !.cnt = @ + 1, !.calls = @ + 1,
            !.last = <<"ok">>, !.durs = Append(@, secs)]

\* One iteration of the warmup loop: await run_once(), result discarded.
Warmup ==
  /\ smp.pc = "warmup"
  /\ warmup_pending(smp)
  /\ \/ /\ smp.once.fail # "always"
        /\ smp' = [smp EXCEPT !.i = @ + 1, !.calls = @ + 1, !.last = <<"ok">>]
     \/ /\ smp.once.fail # "never"
        /\ \E e \in RunErrs : smp' = once_throws(smp, e)
  /\ UNCHANGED <<cachevars, mxvars, shvars, CMD_TIMEOUT_MS, ACTIVE_CHILDREN, inv, child, todo>>

\* The warmup loop ends: var sum = 0; var cnt = 0.
WarmupEnd ==
  /\ smp.pc = "warmup"
  /\ ~warmup_pending(smp)
  /\ smp' = [smp EXCEPT !.pc = "timed", !.sum = 0, !.cnt = 0]
  /\ UNCHANGED <<cachevars, mxvars, shvars, CMD_TIMEOUT_MS, ACTIVE_CHILDREN, inv, child, todo>>

\* One iteration of the timed loop; secs is what elapsed_secs(start) gives.
Trial ==
  /\ smp.pc = "timed"
  /\ sample_needs_more(smp.cnt, smp.sum, smp.cfg)
  /\ \/ /\ smp.once.fail # "always"
        /\ \E secs \in smp.once.secs : smp' = trial_ok(smp, secs)
     \/ /\ smp.once.fail # "never"
        /\ \E e \in RunErrs : smp' = once_throws(smp, e)
  /\ UNCHANGED <<cachevars, mxvars, shvars, CMD_TIMEOUT_MS, ACTIVE_CHILDREN, inv, child, todo>>

\* The timed loop ends and run_sampled returns.
Return ==
  /\ smp.pc = "timed"
  /\ ~sample_needs_more(smp.cnt, smp.sum, smp.cfg)
  /\ smp' = [smp EXCEPT !.pc = "done",
                        !.ret = IF smp.cnt = 0 THEN NaN
                                ELSE Mean(smp.sum, smp.cnt)]
  /\ UNCHANGED <<cachevars, mxvars, shvars, CMD_TIMEOUT_MS, ACTIVE_CHILDREN, inv, child, todo>>

\* ------------------------------------------------------------- file names
\* A text is a sequence of tokens: words of [a-z0-9], upper-case words, and
\* the separator characters of Seps.

Seps == {"-", "/", ".", "|", " ", "_"}

\* null where a text is expected (no file name or message is empty)
null == <<>>

\* String.prototype.toLowerCase on one token
Lower(tok) == IF tok = "SUM" THEN "sum" ELSE tok

\* [a-z0-9] after lower-casing
IsAlnum(tok) == Lower(tok) \notin Seps

\* The value of F at v, with v worked out once however often F reads it.
Once(v, F(_)) == CHOOSE r \in { F(x) : x \in {v} } : TRUE

\* join of texts
JoinTxt(parts, sep) ==
  LET J[k \in 1..Len(parts)] ==
        IF k = Len(parts) THEN parts[k] ELSE parts[k] \o sep \o J[k + 1]
  IN IF parts = <<>> THEN <<>> ELSE J[1]

\* txt.toLowerCase().replace(/[^a-z0-9]+/g, "-"): every word lower-cased,
\* every run of other characters turned into one dash
Dashed(txt) ==
  LET D[k \in 1..(Len(txt) + 1)] ==
        IF k > Len(txt) THEN <<>>
        ELSE IF IsAlnum(txt[k]) THEN <<Lower(txt[k])>> \o D[k + 1]
        ELSE IF k > 1 /\ ~IsAlnum(txt[k - 1]) THEN D[k + 1]
        ELSE <<"-">> \o D[k + 1]
  IN D[1]

\* replace(/^-+/, "")
StripLead(txt) ==
  LET first == CHOOSE k \in 1..(Len(txt) + 1) :
                 /\ k = Len(txt) + 1 \/ txt[k] # "-"
                 /\ \A j \in 1..(k - 1) : txt[j] = "-"
  IN SubSeq(txt, first, Len(txt))

\* replace(/-+$/, "")
StripTrail(txt) ==
  LET last == CHOOSE k \in 0..Len(txt) :
                /\ k = 0 \/ txt[k] # "-"
                /\ \A j \in (k + 1)..Len(txt) : txt[j] = "-"
  IN SubSeq(txt, 1, last)

tmp_tok(txt) ==
  Once(txt, LAMBDA x :
  Once(Dashed(x), LAMBDA d :
  Once(StripLead(d), LAMBDA l :
  Once(StripTrail(l), LAMBDA t :
    IF t = <<>> THEN <<"tmp">> ELSE t))))

LastSlash(p) ==
  LET S == {k \in 1..Len(p) : p[k] = "/"}
  IN IF S = {} THEN 0 ELSE CHOOSE k \in S : \A j \in S : j <= k

\* path.dirname
dirname(p) ==
  LET k == LastSlash(p)
  IN IF k = 0 THEN <<".">> ELSE IF k = 1 THEN <<"/">> ELSE SubSeq(p, 1, k - 1)

\* path.basename
basename(p) == SubSeq(p, LastSlash(p) + 1, Len(p))

bench_tag(file) ==
  Once(file, LAMBDA f : Once(dirname(f), LAMBDA d : basename(d)))

\* fs.mkdtempSync(path.join(os.tmpdir(), "bench-ts."))
TMP_DIR == <<"/", "tmp", "/", "bench", "-", "ts", ".", "k3">>

CASE_DIR == <<"/", "repo", "/", "bench">>

tmp_path(parts, ext) ==
  Once(parts, LAMBDA ps :
  Once([k \in 1..Len(ps) |-> tmp_tok(ps[k])], LAMBDA toks :
  Once(JoinTxt(toks, <<"-">>), LAMBDA nam :
    TMP_DIR \o <<"/">> \o (IF nam = <<>> THEN <<"tmp">> ELSE nam) \o ext)))

\* String(n)
Str(n) == <<ToString(n)>>

BEND_CMD == <<"bend">>

NEW_BEND_CMD == <<"newbend">>

TO_HVM == <<"-", "-", "to", "-", "hvm">>

TO_CHK == <<"-", "-", "to", "-", "chk">>

\* The benchmark directories under CASE_DIR.
Names == {<<"sum">>, <<"gen", "_", "a">>}

\* path.join(dir, "main.bend") and path.join(dir, "main.hvm")
BendFile(name) == CASE_DIR \o <<"/">> \o name \o <<"/", "main", ".", "bend">>

HvmFile(name) == CASE_DIR \o <<"/">> \o name \o <<"/", "main", ".", "hvm">>

hvm_extra_args(name) ==
  IF IsPrefix(<<"gen", "_">>, name) THEN << <<"-C1">> >>
  ELSE IF IsPrefix(<<"collapse", "_">>, name) THEN << <<"-C">> >>
  ELSE <<>>

\* ------------------------------------------------- the other two samplers
\* run_hot_sync and the generated Node helper, as functions of the
\* configuration and of the durations durs[1], durs[2], ... their timed
\* trials take.

\* The loop "while (more(cnt, sum)) { run(); sum += secs; cnt += 1 }" over
\* the trials of durs: the count and the sum it reaches, and whether it
\* would go on to a trial beyond durs.
timed_loop(more(_, _), durs) ==
  LET S[k \in 0..Len(durs)] ==
        IF k = 0 THEN [cnt |-> 0, sum |-> 0]
        ELSE LET p == S[k - 1]
             IN IF p.cnt = k - 1 /\ more(p.cnt, p.sum)
                THEN [cnt |-> k, sum |-> p.sum + durs[k]]
                ELSE p
      r == S[Len(durs)]
  IN [cnt |-> r.cnt, sum |-> r.sum, more |-> more(r.cnt, r.sum)]

\* The calls "for (var i = 0; i < warmup; ++i) run()" makes.
warmup_calls(warmup) == IF warmup > 0 THEN warmup ELSE 0

run_hot_sync(cfg, durs) ==
  LET r == timed_loop(LAMBDA cnt, sum : sample_needs_more(cnt, sum, cfg), durs)
  IN [ err  |-> null,
       warm |-> warmup_calls(cfg.warmup),
       cnt  |-> r.cnt,
       more |-> r.more,
       ret  |-> IF r.cnt = 0 THEN NaN ELSE Mean(r.sum, r.cnt) ]

SECS_TAG == "BENCH_SECS"

\* Number(txt) of the helper's parse_num, for the texts String gives to the
\* numbers of a configuration; its error for anything else.
parse_num(txt) ==
  IF \E n \in 0..(MaxSteady + MaxSecs) : txt = Str(n)
  THEN [err |-> null, val |-> CHOOSE n \in 0..(MaxSteady + MaxSecs) : txt = Str(n)]
  ELSE [err |-> <<"invalid numeric arg: ">> \o txt, val |-> 0]

parse_nonneg_int(txt) ==
  LET p == parse_num(txt)
  IN IF p.err = null /\ p.val < 0
     THEN [err |-> <<"invalid non-negative int arg: ">> \o txt, val |-> 0]
     ELSE p

parse_pos_int(txt) ==
  LET p == parse_num(txt)
  IN IF p.err = null /\ p.val <= 0
     THEN [err |-> <<"invalid positive int arg: ">> \o txt, val |-> 0]
     ELSE p

\* Mutant of node_sample_needs_more: the helper goes on until min_runs,
\* whatever the time spent.
node_sample_needs_more_runs(cnt, sum, min_runs, max_runs, min_secs) ==
  IF cnt = 0 THEN TRUE
  ELSE IF cnt >= max_runs THEN FALSE
  ELSE IF cnt < min_runs THEN TRUE
  ELSE FALSE

\* sample_needs_more of the generated helper
node_sample_needs_more(cnt, sum, min_runs, max_runs, min_secs) ==
  IF cnt = 0 THEN TRUE
  ELSE IF cnt >= max_runs THEN FALSE
  ELSE IF cnt < min_runs /\ sum < min_secs THEN TRUE
  ELSE FALSE

\* String(sum / cnt) and the Number that reads it back: a quotient is
\* written as its two terms.
NumTxt(q) == <<ToString(q.num), "/", ToString(q.den)>>

TxtNum(txt) ==
  LET qs == { q \in [num : 0..(MaxSteady * (MaxRuns + 1)), den : 1..(MaxRuns + 1)] :
                NumTxt(q) = txt }
  IN IF qs = {} THEN NaN ELSE CHOOSE q \in qs : TRUE

\* main of the generated helper over argv = <<mod, warmup, min_runs,
\* max_runs, min_secs>>: the calls of run it makes and the lines it prints,
\* or the error it exits with.
node_runner_main(args, durs) ==
  LET warmup   == parse_nonneg_int(args[2])
      min_runs == parse_pos_int(args[3])
      max_runs == parse_pos_int(args[4])
      min_secs == parse_num(args[5])
      errs     == SelectSeq(<<warmup.err, min_runs.err, max_runs.err, min_secs.err>>,
                            LAMBDA e : e # null)
      r == timed_loop(LAMBDA cnt, sum :
                        node_sample_needs_more(cnt, sum, min_runs.val,
                                               max_runs.val, min_secs.val),
                      durs)
      fail(e) == [err |-> e, warm |-> 0, cnt |-> 0, more |-> FALSE, out |-> <<>>]
  IN IF Len(args) # 5 THEN fail(<<"usage: node runner.mjs">>)
     ELSE IF errs # <<>> THEN fail(errs[1])
     ELSE IF r.cnt = 0
     THEN [fail(<<"no timed runs were executed">>) EXCEPT
             !.warm = warmup_calls(warmup.val)]
     ELSE [ err  |-> null,
            warm |-> warmup_calls(warmup.val),
            cnt  |-> r.cnt,
            more |-> r.more,
            out  |-> << <<SECS_TAG, " ">> \o NumTxt(Mean(r.sum, r.cnt)) >> ]

\* secs_parse: the number on the last line of out that starts with the
\* tag, or the error thrown when there is none.
secs_parse(out) ==
  LET tagged == {i \in 1..Len(out) : IsPrefix(<<SECS_TAG, " ">>, out[i])}
      last   == CHOOSE i \in tagged : \A j \in tagged : j <= i
      val    == TxtNum(SubSeq(out[last], 3, Len(out[last])))
  IN IF tagged = {} THEN [err |-> <<"missing ", SECS_TAG, " in output">>, val |-> NaN]
     ELSE IF val = NaN
     THEN [err |-> <<"invalid ", SECS_TAG, " value: ">>, val |-> NaN]
     ELSE [err |-> null, val |-> val]

\* The sampling of mode_bend_node: the helper under run_cmd with the
\* configuration as its arguments, and secs_parse on its output.
mode_bend_node(mod_file, cfg, durs) ==
  LET h == node_runner_main(<<mod_file, Str(cfg.warmup), Str(cfg.min_runs),
                              Str(cfg.max_runs), Str(cfg.min_secs)>>, durs)
      p == secs_parse(h.out)
  IN [ err  |-> IF h.err # null THEN h.err ELSE p.err,
       warm |-> h.warm,
       cnt  |-> h.cnt,
       more |-> h.more,
       ret  |-> IF h.err # null THEN NaN ELSE p.val ]

\* The condition of the while loop of the helper timeline.ts generates.
timeline_needs_more(cnt, sum, min_runs, max_runs, min_secs) ==
  cnt = 0 \/ (cnt < max_runs /\ (cnt < min_runs \/ sum < min_secs))

\* main of the helper timeline.ts generates, over argv = <<fil, w, lo, hi,
\* ms>> read with Number: the calls of run it makes and the line it prints.
timeline_main(args, durs) ==
  LET warmup   == parse_num(args[2]).val
      min_runs == parse_num(args[3]).val
      max_runs == parse_num(args[4]).val
      min_secs == parse_num(args[5]).val
      r == timed_loop(LAMBDA cnt, sum :
                        timeline_needs_more(cnt, sum, min_runs, max_runs, min_secs),
                      durs)
  IN [ warm |-> warmup_calls(warmup),
       cnt  |-> r.cnt,
       more |-> r.more,
       out  |-> << <<SECS_TAG, " ">> \o NumTxt(Mean(r.sum, r.cnt)) >> ]

\* ------------------------------------------------------------------ caches

undefined == "undefined"

\* Mutant of MapGet: every lookup misses.
MapGet_miss(map, key) == undefined

\* Map.prototype.get
MapGet(map, key) == IF key \in DOMAIN map THEN map[key] ELSE undefined

\* Mutant of MapSet: nothing is stored.
MapSet_drop(map, key, val) == map

\* Map.prototype.set
MapSet(map, key, val) ==
  [k \in (DOMAIN map) \cup {key} |-> IF k = key THEN val ELSE map[k]]

\* What the compile command of a build ends with.
BuildOk == [ok |-> TRUE, msg |-> <<>>]

BuildFail(e) == [ok |-> FALSE, msg |-> e]

\* Mutant of build_then_set: the entry is stored whether or not the build
\* succeeded.
build_then_set_always(map, key, out, res) == MapSet(map, key, out)

\* "await run_cmd(...); CACHE.set(key, out)": a rejected run_cmd leaves the
\* function before the set.
build_then_set(map, key, out, res) ==
  IF res.ok THEN MapSet(map, key, out) ELSE map

\* The body shared by the three compile functions: look the key up, return
\* a hit, otherwise build and store.
compile_cached(map, key, out, res) ==
  LET old == MapGet(map, key)
  IN IF old # undefined
     THEN [map |-> map, built |-> FALSE, ok |-> TRUE, ret |-> old]
     ELSE [map |-> build_then_set(map, key, out, res), built |-> TRUE,
           ok |-> res.ok, ret |-> IF res.ok THEN out ELSE res.msg]

Req(cache, key, r) ==
  [cache |-> cache, key |-> key, built |-> r.built, ok |-> r.ok, ret |-> r.ret]

hvm_bin_key(file, name, flow, threads) ==
  JoinTxt(<<flow, Str(threads), file, JoinTxt(hvm_extra_args(name), <<" ">>)>>,
          <<"|">>)

\* What hvm_compile_bin does to its cache and what it returns.
hvm_bin_result(file, name, flow, threads, res) ==
  compile_cached(HVM_BIN_CACHE, hvm_bin_key(file, name, flow, threads),
                 tmp_path(<<flow, Str(threads), bench_tag(file)>>,
                          <<".", "bin">>),
                 res)

hvm_compile_bin(file, name, flow, threads, res) ==
  LET key == hvm_bin_key(file, name, flow, threads)
      r   == hvm_bin_result(file, name, flow, threads, res)
  IN /\ HVM_BIN_CACHE' = r.map
     /\ reqs' = Append(reqs, Req("HVM_BIN_CACHE", key, r))
     /\ UNCHANGED <<BEND_JS_CACHE, BEND_HVM_CACHE>>

bend_hvm_key(file, cli_flag, bend_cmd) ==
  bend_cmd \o <<"|">> \o cli_flag \o <<"|">> \o file

\* What bend_compile_hvm does to its cache and what it returns.
bend_hvm_result(file, cli_flag, bend_cmd, res) ==
  compile_cached(BEND_HVM_CACHE, bend_hvm_key(file, cli_flag, bend_cmd),
                 tmp_path(<< <<"bend">>, cli_flag, bend_cmd, bench_tag(file)>>,
                          <<".", "hvm">>),
                 res)

bend_compile_hvm(file, cli_flag, bend_cmd, res) ==
  LET key == bend_hvm_key(file, cli_flag, bend_cmd)
      r   == bend_hvm_result(file, cli_flag, bend_cmd, res)
  IN /\ BEND_HVM_CACHE' = r.map
     /\ reqs' = Append(reqs, Req("BEND_HVM_CACHE", key, r))
     /\ UNCHANGED <<BEND_JS_CACHE, HVM_BIN_CACHE>>

bend_js_key(file, bend_cmd) == bend_cmd \o <<"|">> \o file

\* What bend_compile_js_lib does to its cache and what it returns.
bend_js_result(file, bend_cmd, res) ==
  compile_cached(BEND_JS_CACHE, bend_js_key(file, bend_cmd),
                 tmp_path(<< <<"bend">>, <<"js">>, bend_cmd, bench_tag(file)>>,
                          <<".", "mjs">>),
                 res)

bend_compile_js_lib(file, bend_cmd, res) ==
  LET key == bend_js_key(file, bend_cmd)
      r   == bend_js_result(file, bend_cmd, res)
  IN /\ BEND_JS_CACHE' = r.map
     /\ reqs' = Append(reqs, Req("BEND_JS_CACHE", key, r))
     /\ UNCHANGED <<BEND_HVM_CACHE, HVM_BIN_CACHE>>

\* The requests one session of cache calls makes.
MaxReqs == 3

\* The thread counts of the -T suffix.
MaxThreads == 2

\* The outcomes of a compile command as the cache functions see them.
CacheOutcomes == {BuildOk, BuildFail(<<"exit 1">>)}

ReqBin ==
  /\ Len(reqs) < MaxReqs
  /\ \E n \in Names, threads \in 1..MaxThreads, res \in CacheOutcomes :
        hvm_compile_bin(HvmFile(n), n, <<"hvmc">>, threads, res)
  /\ UNCHANGED <<mxvars, shvars, CMD_TIMEOUT_MS, ACTIVE_CHILDREN, inv, child, todo, smp>>

ReqHvm ==
  /\ Len(reqs) < MaxReqs
  /\ \E n \in Names, flag \in {TO_HVM, TO_CHK}, res \in CacheOutcomes :
        bend_compile_hvm(BendFile(n), flag, BEND_CMD, res)
  /\ UNCHANGED <<mxvars, shvars, CMD_TIMEOUT_MS, ACTIVE_CHILDREN, inv, child, todo, smp>>

ReqJs ==
  /\ Len(reqs) < MaxReqs
  /\ \E n \in Names, cmd \in {BEND_CMD, NEW_BEND_CMD}, res \in CacheOutcomes :
        bend_compile_js_lib(BendFile(n), cmd, res)
  /\ UNCHANGED <<mxvars, shvars, CMD_TIMEOUT_MS, ACTIVE_CHILDREN, inv, child, todo, smp>>

\* process.env.NEW_BEND_CMD set to a build in the working directory.
NEW_BEND_CMD_LOCAL == <<".", "/", "bend">>

\* The Bend commands of one run: BEND_CMD and NEW_BEND_CMD, by default or
\* from the environment.
BendCmdSets == { {BEND_CMD, NEW_BEND_CMD}, {BEND_CMD, NEW_BEND_CMD_LOCAL} }

\* The compile requests the modes of a command line make for the row "sum":
\* bend-bun / bend-node / newbend-bun / newbend-node ask for the JS library,
\* the hvm modes for the .hvm file.
RowJs ==
  /\ cli.pc = "row"
  /\ Len(reqs) < MaxReqs
  /\ \E cmd \in cli.tools, res \in CacheOutcomes :
        bend_compile_js_lib(BendFile(<<"sum">>), cmd, res)
  /\ UNCHANGED <<mxvars, shvars, CMD_TIMEOUT_MS, ACTIVE_CHILDREN, inv, child, todo, smp>>

RowHvm ==
  /\ cli.pc = "row"
  /\ Len(reqs) < MaxReqs
  /\ \E cmd \in cli.tools, flag \in {TO_HVM, TO_CHK}, res \in CacheOutcomes :
        bend_compile_hvm(BendFile(<<"sum">>), flag, cmd, res)
  /\ UNCHANGED <<mxvars, shvars, CMD_TIMEOUT_MS, ACTIVE_CHILDREN, inv, child, todo, smp>>

\* ------------------------------------------------------------------ matrix

\* The entries of MODE_DEFS the matrix is run with.
MODE_DEFS ==
  { [flag |-> "--bend-via-bunjs", label |-> "bend-bun", input |-> "bend",
     bend_cmd_src |-> "bend", hvm_threads |-> FALSE, run |-> "mode_bend_bun",
     needs_hvm |-> FALSE, needs_bun |-> TRUE, needs_node |-> FALSE],
    [flag |-> "--bend-via-hvm-interpreted", label |-> "bend-hvmi",
     input |-> "bend", bend_cmd_src |-> "bend", hvm_threads |-> TRUE,
     run |-> "mode_bend_hvmi",
     needs_hvm |-> TRUE, needs_bun |-> FALSE, needs_node |-> FALSE],
    [flag |-> "--bend-via-hvm-compiled", label |-> "bend-hvmc",
     input |-> "bend", bend_cmd_src |-> "bend", hvm_threads |-> TRUE,
     run |-> "mode_bend_hvmc",
     needs_hvm |-> TRUE, needs_bun |-> FALSE, needs_node |-> FALSE],
    [flag |-> "--hvm-interpreted", label |-> "hvmi", input |-> "hvm",
     bend_cmd_src |-> "none", hvm_threads |-> TRUE, run |-> "mode_hvmi",
     needs_hvm |-> TRUE, needs_bun |-> FALSE, needs_node |-> FALSE],
    [flag |-> "--hvm-compiled", label |-> "hvmc", input |-> "hvm",
     bend_cmd_src |-> "none", hvm_threads |-> TRUE, run |-> "mode_hvmc",
     needs_hvm |-> TRUE, needs_bun |-> FALSE, needs_node |-> FALSE] }

mode_flag(def, threads) ==
  IF ~def.hvm_threads \/ threads = 1 THEN <<def.flag>>
  ELSE <<def.flag, "-T">> \o Str(threads)

mode_bend_cmd(def) ==
  CASE def.bend_cmd_src = "none"    -> null
    [] def.bend_cmd_src = "bend"    -> BEND_CMD
    [] def.bend_cmd_src = "newbend" -> NEW_BEND_CMD

mode_make(def, threads) ==
  [ key      |-> <<def.label, "@">> \o Str(threads),
    flag     |-> mode_flag(def, threads),
    input    |-> def.input,
    bend_cmd |-> mode_bend_cmd(def),
    threads  |-> threads,
    needs_hvm  |-> def.needs_hvm,
    needs_bun  |-> def.needs_bun,
    needs_node |-> def.needs_node,
    run      |-> def.run ]

\* What mode_parse can return: threaded modes with any -T suffix, the others
\* with one thread.
ParsedModes ==
  { mode_make(def, t) : def \in {d \in MODE_DEFS : d.hvm_threads},
                        t \in 1..MaxThreads }
  \cup { mode_make(def, 1) : def \in {d \in MODE_DEFS : ~d.hvm_threads} }

\* What parse_modes can return for one or two mode tokens: no key twice.
ModeLists ==
  { <<a>> : a \in ParsedModes }
  \cup { ms \in { <<a, b>> : a, b \in ParsedModes } : ms[1].key # ms[2].key }

\* One row of discover_rows for a directory holding the given files.
Row(name, has_bend, has_hvm) ==
  [ name      |-> name,
    bend_file |-> IF has_bend THEN BendFile(name) ELSE null,
    hvm_file  |-> IF has_hvm THEN HvmFile(name) ELSE null ]

\* What discover_rows can return over the directories "gen_a" and "sum",
\* in sorted order; a directory with neither file gives no row.
RowLists ==
  LET opts(n) == { IF b \/ h THEN <<Row(n, b, h)>> ELSE <<>> :
                     b, h \in BOOLEAN }
  IN { a \o b : a \in opts(<<"gen", "_", "a">>), b \in opts(<<"sum">>) }

\* cell_new
cell_new(state) == [state |-> state, secs |-> null_num, err |-> null]

\* Mutant of cell_state_for: every cell starts pending.
cell_state_for_pending(mode, row) == "pending"

\* The state bench_all gives a new cell.
cell_state_for(mode, row) ==
  IF mode.input = "bend" /\ row.bend_file = null THEN "na"
  ELSE IF mode.input = "hvm" /\ row.hvm_file = null THEN "na"
  ELSE "pending"

Flags == { modes[m].flag : m \in 1..Len(modes) }

CurInit == [pc |-> "build", r |-> 1, m |-> 1, hvm_file |-> null, ret |-> null_num]

\* Mutant of Advance: the modes loop outside the rows loop.
Advance_by_column(c) ==
  IF c.r < Len(rows)
  THEN [c EXCEPT !.pc = "cell", !.r = @ + 1, !.hvm_file = null]
  ELSE IF c.m < Len(modes)
  THEN [c EXCEPT !.pc = "cell", !.r = 1, !.m = @ + 1, !.hvm_file = null]
  ELSE [c EXCEPT !.pc = "cell", !.r = Len(rows) + 1, !.m = 1, !.hvm_file = null]

\* The next position of the two nested for loops.
Advance(c) ==
  IF c.m < Len(modes)
  THEN [c EXCEPT !.pc = "cell", !.m = @ + 1, !.hvm_file = null]
  ELSE [c EXCEPT !.pc = "cell", !.r = @ + 1, !.m = 1, !.hvm_file = null]

\* Mutant of catch_next: the failure leaves bench_all.
catch_next_abort(c) == [c EXCEPT !.pc = "end", !.ret = 1]

\* Mutant of catch_next: the failed cell is run again.
catch_next_retry(c) == [c EXCEPT !.pc = "cell", !.hvm_file = null]

\* After the catch branch: the redraw, then the next iteration.
catch_next(c) == Advance(c)

CurRow == rows[cur.r]

CurMode == modes[cur.m]

CurCell == cells[cur.r][CurMode.flag]

SetCell(cell) == [cells EXCEPT ![cur.r][CurMode.flag] = cell]

\* Mutant of cell_running: the cell is left as it was.
cell_running_skip(cell) == cell

\* cell.state = "running"; cell.err = null
cell_running(cell) == [cell EXCEPT !.state = "running", !.err = null]

\* Mutant of cell_done: the seconds are not stored.
cell_done_state_only(cell, secs) == [cell EXCEPT !.state = "done"]

\* The try branch: cell.state = "done"; cell.secs = secs
cell_done(cell, secs) == [cell EXCEPT !.state = "done", !.secs = secs]

\* The catch branch
cell_caught(cell, msg) ==
  [cell EXCEPT !.state = IF err_is_timeout(msg) THEN "timeout" ELSE "error",
               !.err = msg]

\* The first await of each mode's run function.
FirstStep(run) ==
  CASE run = "mode_bend_bun"  -> "js"
    [] run = "mode_bend_hvmi" -> "hvm"
    [] run = "mode_bend_hvmc" -> "hvm"
    [] run = "mode_hvmi"      -> "sample"
    [] run = "mode_hvmc"      -> "bin"

\* The file a mode's run function reads from the row.
InputFile(mode, row) ==
  IF mode.input = "bend" THEN row.bend_file ELSE row.hvm_file

MissingFile(mode) ==
  IF mode.input = "bend" THEN <<"internal: missing bend file">>
  ELSE <<"internal: missing hvm file">>

\* bench_all finds no row: return 1.
NoRows ==
  /\ cur.pc = "build"
  /\ rows = <<>>
  /\ cur' = [cur EXCEPT !.pc = "end", !.ret = 1]
  /\ UNCHANGED <<rows, modes, cells, had_error, ran>>
  /\ UNCHANGED <<cachevars, shvars, CMD_TIMEOUT_MS, ACTIVE_CHILDREN, inv, child, todo, smp>>

\* The construction loops of bench_all, and the first redraw.
MatrixBuild ==
  /\ cur.pc = "build"
  /\ rows # <<>>
  /\ cells' = [r \in 1..Len(rows) |->
                 [f \in Flags |->
                    LET mode == CHOOSE md \in {modes[m] : m \in 1..Len(modes)} :
                                  md.flag = f
                    IN cell_new(cell_state_for(mode, rows[r]))]]
  /\ cur' = [cur EXCEPT !.pc = "cell"]
  /\ UNCHANGED <<rows, modes, had_error, ran>>
  /\ UNCHANGED <<cachevars, shvars, CMD_TIMEOUT_MS, ACTIVE_CHILDREN, inv, child, todo, smp>>

AtCell == cur.pc = "cell" /\ cur.r <= Len(rows)

\* if (cell.state === "na") continue
CellSkip ==
  /\ AtCell
  /\ CurCell.state = "na"
  /\ cur' = Advance(cur)
  /\ UNCHANGED <<rows, modes, cells, had_error, ran>>
  /\ UNCHANGED <<cachevars, shvars, CMD_TIMEOUT_MS, ACTIVE_CHILDREN, inv, child, todo, smp>>

\* The cell is set running and redrawn, and mode.run is entered up to its
\* first await; a missing input file makes it throw at once.
CellStart ==
  /\ AtCell
  /\ CurCell.state # "na"
  /\ ran' = ran \cup {<<cur.r, CurMode.flag>>}
  /\ IF InputFile(CurMode, CurRow) = null
     THEN /\ cells' = SetCell(cell_caught(cell_running(CurCell), MissingFile(CurMode)))
          /\ had_error' = TRUE
          /\ cur' = catch_next(cur)
     ELSE /\ cells' = SetCell(cell_running(CurCell))
          /\ cur' = [cur EXCEPT !.pc = FirstStep(CurMode.run)]
          /\ UNCHANGED had_error
  /\ UNCHANGED <<rows, modes>>
  /\ UNCHANGED <<cachevars, shvars, CMD_TIMEOUT_MS, ACTIVE_CHILDREN, inv, child, todo, smp>>

\* What follows a compile step that gave r: the next await of the run
\* function, or the catch branch of bench_all.
AfterCompile(r, next, keep) ==
  IF r.ok
  THEN /\ cur' = [cur EXCEPT !.pc = next,
                             !.hvm_file = IF keep THEN r.ret ELSE @]
       /\ UNCHANGED <<cells, had_error>>
  ELSE /\ cells' = SetCell(cell_caught(CurCell, r.ret))
       /\ had_error' = TRUE
       /\ cur' = catch_next(cur)

\* mode_bend_bun: await bend_compile_js_lib(file, bend_cmd)
StepJs ==
  /\ cur.pc = "js"
  /\ \E res \in CacheOutcomes :
        /\ bend_compile_js_lib(CurRow.bend_file, CurMode.bend_cmd, res)
        /\ AfterCompile(bend_js_result(CurRow.bend_file, CurMode.bend_cmd, res),
                        "sample", FALSE)
  /\ UNCHANGED <<rows, modes, ran>>
  /\ UNCHANGED <<shvars, CMD_TIMEOUT_MS, ACTIVE_CHILDREN, inv, child, todo, smp>>

\* mode_bend_hvmi, mode_bend_hvmc: await bend_compile_hvm(file, "--to-hvm",
\* bend_cmd)
StepHvm ==
  /\ cur.pc = "hvm"
  /\ \E res \in CacheOutcomes :
        /\ bend_compile_hvm(CurRow.bend_file, TO_HVM, CurMode.bend_cmd, res)
        /\ AfterCompile(bend_hvm_result(CurRow.bend_file, TO_HVM,
                                        CurMode.bend_cmd, res),
                        IF CurMode.run = "mode_bend_hvmc" THEN "bin"
                        ELSE "sample",
                        TRUE)
  /\ UNCHANGED <<rows, modes, ran>>
  /\ UNCHANGED <<shvars, CMD_TIMEOUT_MS, ACTIVE_CHILDREN, inv, child, todo, smp>>

\* The file and flow a mode's run function hands to hvm_compile_bin.
BinFile == IF CurMode.run = "mode_bend_hvmc" THEN cur.hvm_file
           ELSE CurRow.hvm_file

BinFlow == IF CurMode.run = "mode_bend_hvmc" THEN <<"bend", "-", "hvmc">>
           ELSE <<"hvmc">>

\* mode_hvmc, mode_bend_hvmc: await hvm_compile_bin(file, row.name, flow,
\* threads)
StepBin ==
  /\ cur.pc = "bin"
  /\ \E res \in CacheOutcomes :
        /\ hvm_compile_bin(BinFile, CurRow.name, BinFlow, CurMode.threads, res)
        /\ AfterCompile(hvm_bin_result(BinFile, CurRow.name, BinFlow,
                                       CurMode.threads, res),
                        "sample", FALSE)
  /\ UNCHANGED <<rows, modes, ran>>
  /\ UNCHANGED <<shvars, CMD_TIMEOUT_MS, ACTIVE_CHILDREN, inv, child, todo, smp>>

\* The sampling of the run function ends: with a mean (try branch) or with
\* an error (catch branch); then the redraw.
StepSample ==
  /\ cur.pc = "sample"
  /\ \/ /\ cells' = SetCell(cell_done(CurCell, 1))
        /\ UNCHANGED had_error
        /\ cur' = Advance(cur)
     \/ \E e \in RunErrs :
          /\ cells' = SetCell(cell_caught(CurCell, e))
          /\ had_error' = TRUE
          /\ cur' = catch_next(cur)
  /\ UNCHANGED <<rows, modes, ran>>
  /\ UNCHANGED <<cachevars, shvars, CMD_TIMEOUT_MS, ACTIVE_CHILDREN, inv, child, todo, smp>>

\* Mutant of exit_status: failures are not reported.
exit_status_zero(err) == 0

\* if (had_error) return 1; return 0
exit_status(err) == IF err THEN 1 ELSE 0

\* Both loops are over: return had_error ? 1 : 0.
MatrixEnd ==
  /\ cur.pc = "cell"
  /\ cur.r > Len(rows)
  /\ cur' = [cur EXCEPT !.pc = "end", !.ret = exit_status(had_error)]
  /\ UNCHANGED <<rows, modes, cells, had_error, ran>>
  /\ UNCHANGED <<cachevars, shvars, CMD_TIMEOUT_MS, ACTIVE_CHILDREN, inv, child, todo, smp>>

\* -------------------------------------------------------------------- main

HVM_CMD == <<"hvm">>

BUN_CMD == <<"bun">>

NODE_CMD == <<"node">>

HELP == <<"--help">>

TIMEOUT_OPT == <<"--timeout">>

TIMEOUT_EQ == "--timeout="

\* Number(txt) for the texts a --timeout value is tried with, in tenths of
\* a millisecond; NotANumber where Number gives NaN.
NotANumber == 0 - 1

Number(txt) ==
  CASE txt = <<"2">>      -> 20000
    [] txt = <<"0">>      -> 0
    [] txt = <<>>         -> 0
    [] txt = <<"0.0001">> -> 1
    [] OTHER              -> NotANumber

\* timeout_parse_ms: the error thrown, or the milliseconds.
timeout_parse_ms(txt) ==
  LET secs == Number(txt)
      ms   == secs \div 10
  IN IF secs = NotANumber \/ secs <= 0
     THEN [err |-> <<"invalid --timeout value (seconds > 0): ">> \o txt, ms |-> 0]
     ELSE IF ms <= 0
     THEN [err |-> <<"invalid --timeout value (too small): ">> \o txt, ms |-> 0]
     ELSE [err |-> null, ms |-> ms]

\* One turn of parse_cli's loop; skip is set when the next argument was
\* taken as the value of --timeout.
parse_cli_arg(cfg, args, i) ==
  LET arg == args[i]
      t1  == IF i < Len(args) THEN timeout_parse_ms(args[i + 1])
             ELSE [err |-> <<"missing value for --timeout">>, ms |-> 0]
      t2  == timeout_parse_ms(Tail(arg))
  IN IF cfg.err # null THEN cfg
     ELSE IF cfg.skip THEN [cfg EXCEPT !.skip = FALSE]
     ELSE IF arg = <<"-h">> \/ arg = HELP THEN [cfg EXCEPT !.show_help = TRUE]
     ELSE IF arg = TIMEOUT_OPT
     THEN IF t1.err # null THEN [cfg EXCEPT !.err = t1.err]
          ELSE [cfg EXCEPT !.timeout_ms = t1.ms, !.skip = TRUE]
     ELSE IF arg # <<>> /\ arg[1] = TIMEOUT_EQ
     THEN IF t2.err # null THEN [cfg EXCEPT !.err = t2.err]
          ELSE [cfg EXCEPT !.timeout_ms = t2.ms]
     ELSE [cfg EXCEPT !.mode_tokens = Append(@, arg)]

\* parse_cli: err holds the message of the error it throws, if any.
parse_cli(args) ==
  LET P[i \in 0..Len(args)] ==
        IF i = 0
        THEN [err |-> null, skip |-> FALSE, show_help |-> FALSE,
              timeout_ms |-> 20 * 60 * 1000, mode_tokens |-> <<>>]
        ELSE parse_cli_arg(P[i - 1], args, i)
  IN P[Len(args)]

\* The N of a -TN or labelN suffix, /[1-9][0-9]*/; 0 when it does not match.
ThreadsOf(t) ==
  IF \E n \in 1..9 : t = ToString(n)
  THEN CHOOSE n \in 1..9 : t = ToString(n)
  ELSE 0

\* The thread count with which arg selects def; 0 when it does not.
mode_match(def, arg) ==
  IF arg = <<def.flag>> \/ arg = <<def.label>> THEN 1
  ELSE IF ~def.hvm_threads THEN 0
  ELSE IF Len(arg) = 3 /\ arg[1] = def.flag /\ arg[2] = "-T"
  THEN ThreadsOf(arg[3])
  ELSE IF Len(arg) = 2 /\ arg[1] = def.label THEN ThreadsOf(arg[2])
  ELSE 0

\* mode_parse: found is FALSE where the source returns null.
mode_parse(arg) ==
  LET hits == {def \in MODE_DEFS : mode_match(def, arg) > 0}
  IN IF hits = {} THEN [found |-> FALSE, mode |-> <<>>]
     ELSE LET def == CHOOSE d \in hits : TRUE
          IN [found |-> TRUE, mode |-> <<mode_make(def, mode_match(def, arg))>>]

\* parse_modes: the modes in command-line order, no key twice; err holds
\* the message of the error it throws, if any.
parse_modes(tokens) ==
  LET P[i \in 0..Len(tokens)] ==
        IF i = 0 THEN [err |-> null, out |-> <<>>]
        ELSE LET old == P[i - 1]
                 m   == mode_parse(tokens[i])
             IN IF old.err # null THEN old
                ELSE IF ~m.found
                THEN [old EXCEPT !.err = <<"unknown mode: ">> \o tokens[i]]
                ELSE IF \E k \in 1..Len(old.out) : old.out[k].key = m.mode[1].key
                THEN old
                ELSE [old EXCEPT !.out = @ \o m.mode]
  IN P[Len(tokens)]

\* The commands ensure_mode_deps resolves, in its order: the bend commands
\* of the modes, then hvm, bun and node where a mode needs them.
needed_cmds(ms) ==
  LET bend == { ms[k].bend_cmd : k \in {j \in 1..Len(ms) : ms[j].bend_cmd # null} }
  IN bend
     \cup (IF \E k \in 1..Len(ms) : ms[k].needs_hvm THEN {HVM_CMD} ELSE {})
     \cup (IF \E k \in 1..Len(ms) : ms[k].needs_bun THEN {BUN_CMD} ELSE {})
     \cup (IF \E k \in 1..Len(ms) : ms[k].needs_node THEN {NODE_CMD} ELSE {})

\* Mutant of ensure_mode_deps: nothing is resolved.
ensure_mode_deps_none(ms, tools) == null

\* ensure_mode_deps: the message of the error resolve_cmd_path throws for a
\* command that is not an executable of $PATH, or null.
ensure_mode_deps(ms, tools) ==
  LET order   == <<BEND_CMD, NEW_BEND_CMD, HVM_CMD, BUN_CMD, NODE_CMD>>
      missing == {k \in 1..Len(order) : order[k] \in needed_cmds(ms) \ tools}
  IN IF missing = {} THEN null
     ELSE <<"command not found in $PATH: ">>
          \o order[CHOOSE k \in missing : \A j \in missing : k <= j]

\* The synchronous part of main: code is the status main ends with, or
\* null_num when it goes on to bench_all with the modes and the timeout.
main(args, tools) ==
  LET c   == parse_cli(args)
      pm  == parse_modes(c.mode_tokens)
      dep == ensure_mode_deps(pm.out, tools)
      end(code, e) == [code |-> code, err |-> e, modes |-> <<>>,
                       timeout_ms |-> 20 * 60 * 1000]
  IN IF args = <<>> THEN end(1, null)
     ELSE IF c.err # null THEN end(1, c.err)
     ELSE IF c.show_help THEN end(0, null)
     ELSE IF pm.err # null THEN end(1, pm.err)
     ELSE IF pm.out = <<>> THEN end(1, null)
     ELSE IF dep # null THEN end(1, dep)
     ELSE [code |-> null_num, err |-> null, modes |-> pm.out,
           timeout_ms |-> c.timeout_ms]

\* main up to bench_all, or up to the process.exit of its then / catch.
MainStart ==
  /\ cli.pc = "start"
  /\ Alive
  /\ LET r == main(cli.args, cli.tools)
     IN IF r.code = null_num
        THEN /\ cli' = [cli EXCEPT !.pc = "bench"]
             /\ modes' = r.modes
             /\ CMD_TIMEOUT_MS' = r.timeout_ms
             /\ UNCHANGED <<ACTIVE_CHILDREN, child, proc>>
        ELSE /\ cli' = [cli EXCEPT !.pc = "done"]
             /\ SetWorld(process_exit(World, r.code))
             /\ UNCHANGED <<modes, CMD_TIMEOUT_MS>>
  /\ UNCHANGED <<rows, cells, cur, had_error, ran>>
  /\ UNCHANGED <<cachevars, SHUTTING_DOWN, inv, todo, smp>>

\* main().then(code => process.exit(code)) after bench_all has returned.
MainReturn ==
  /\ cli.pc = "bench"
  /\ Alive
  /\ cur.pc = "end"
  /\ cli' = [cli EXCEPT !.pc = "done"]
  /\ SetWorld(process_exit(World, cur.ret))
  /\ UNCHANGED <<cachevars, mxvars, CMD_TIMEOUT_MS, SHUTTING_DOWN, inv, todo, smp>>

\* The arguments main is tried with: up to MaxArgs of these.
ArgTokens ==
  { HELP, TIMEOUT_OPT, <<TIMEOUT_EQ, "2">>, <<TIMEOUT_EQ, "0">>, <<"2">>,
    <<"hvmc">>, <<"--bend-via-bunjs">>, <<"bend-hvmc", "2">>, <<"bogus">> }

MaxArgs == 2

ArgLists == UNION { [1..n -> ArgTokens] : n \in 0..MaxArgs }

\* The commands found on $PATH: all of them, or all but one.
AllTools == {BEND_CMD, HVM_CMD, BUN_CMD, NODE_CMD}

ToolSets == {AllTools} \cup { AllTools \ {c} : c \in {BEND_CMD, HVM_CMD, BUN_CMD} }

\* The case directories main is tried with: none, or "gen_a" and "sum" with
\* both of their files.
MainRows ==
  { <<>>, <<Row(<<"gen", "_", "a">>, TRUE, TRUE), Row(<<"sum">>, TRUE, FALSE)>> }

\* ---------------------------------------------------------- specifications

\* One run_cmd call and every interleaving of its child's events.
Init ==
  /\ SHUTTING_DOWN = FALSE
  /\ proc = ProcInit
  /\ cli = CliNone
  /\ CMD_TIMEOUT_MS \in TimeoutChoices
  /\ ACTIVE_CHILDREN = {}
  /\ inv = [c \in Calls |-> InvInit]
  /\ child = [c \in Calls |-> ChildInit]
  /\ todo = {"c1"}
  /\ BEND_JS_CACHE = <<>>
  /\ BEND_HVM_CACHE = <<>>
  /\ HVM_BIN_CACHE = <<>>
  /\ reqs = <<>>
  /\ rows = <<>>
  /\ modes = <<>>
  /\ cells = <<>>
  /\ cur = CurInit
  /\ had_error = FALSE
  /\ ran = {}
  /\ smp = SmpStart(DEF_CFG, OnceAny)

Next ==
  \/ \E c \in Calls : run_cmd(c)
  \/ \E c \in Calls : OnStdoutData(c)
  \/ \E c \in Calls : OnStderrData(c)
  \/ \E c \in Calls : OnError(c)
  \/ \E c \in Calls : OnClose(c)
  \/ \E c \in Calls : OnTimer(c)
  \/ \E c \in Calls : LeaderExit(c)
  \/ \E c \in Calls : DescExit(c)

Spec == Init /\ [][Next]_vars

\* The same, where an armed timer fires in the end and the 'error' event
\* that spawn queued with process.nextTick is delivered; nothing is asked
\* of the child, which may run and keep its streams open for ever.
SpecTimer ==
  /\ Init
  /\ [][Next]_vars
  /\ \A c \in Calls : WF_vars(OnTimer(c)) /\ WF_vars(OnError(c))

\* The 'data' events of each child when two calls overlap.
PairChunks == 1

\* Two run_cmd calls made before either has settled.
PairInit ==
  /\ SHUTTING_DOWN = FALSE
  /\ proc = ProcInit
  /\ cli = CliNone
  /\ CMD_TIMEOUT_MS = 1500
  /\ ACTIVE_CHILDREN = {}
  /\ inv = [c \in Calls |-> InvInit]
  /\ child = [c \in Calls |-> [ChildInit EXCEPT !.chunks = PairChunks]]
  /\ todo = Calls
  /\ BEND_JS_CACHE = <<>>
  /\ BEND_HVM_CACHE = <<>>
  /\ HVM_BIN_CACHE = <<>>
  /\ reqs = <<>>
  /\ rows = <<>>
  /\ modes = <<>>
  /\ cells = <<>>
  /\ cur = CurInit
  /\ had_error = FALSE
  /\ ran = {}
  /\ smp = SmpStart(DEF_CFG, OnceAny)

SpecPair == PairInit /\ [][Next]_vars

\* The harness with its commands, an interrupt that may come at any moment,
\* and the exit of main; after process.exit no callback of the harness runs,
\* while the processes it left behind go on.
ShutdownNext ==
  \/ \E c \in Calls : Alive /\ run_cmd(c)
  \/ \E c \in Calls : Alive /\ OnStdoutData(c)
  \/ \E c \in Calls : Alive /\ OnStderrData(c)
  \/ \E c \in Calls : Alive /\ OnError(c)
  \/ \E c \in Calls : Alive /\ OnClose(c)
  \/ \E c \in Calls : Alive /\ OnTimer(c)
  \/ \E c \in Calls : LeaderExit(c)
  \/ \E c \in Calls : DescExit(c)
  \/ \E sig \in Signals : on_signal(sig)
  \/ MainExit

SpecShutdown == PairInit /\ [][ShutdownNext]_vars

\* One run_sampled session for every configuration of SampleCfgs, over a
\* run_once that may fail and over one that always fails.
SampleInit ==
  /\ SHUTTING_DOWN = FALSE
  /\ proc = ProcInit
  /\ cli = CliNone
  /\ CMD_TIMEOUT_MS \in TimeoutChoices
  /\ ACTIVE_CHILDREN = {}
  /\ inv = [c \in Calls |-> InvInit]
  /\ child = [c \in Calls |-> ChildInit]
  /\ todo = {}
  /\ BEND_JS_CACHE = <<>>
  /\ BEND_HVM_CACHE = <<>>
  /\ HVM_BIN_CACHE = <<>>
  /\ reqs = <<>>
  /\ rows = <<>>
  /\ modes = <<>>
  /\ cells = <<>>
  /\ cur = CurInit
  /\ had_error = FALSE
  /\ ran = {}
  /\ smp \in {SmpStart(cfg, once) : cfg \in SampleCfgs, once \in {OnceAny, OnceBroken}}

SampleNext == Warmup \/ WarmupEnd \/ Trial \/ Return

SpecSample == SampleInit /\ [][SampleNext]_vars

\* One run_sampled session under ScenarioCfg for every steady run_once.
ScenarioInit ==
  /\ SHUTTING_DOWN = FALSE
  /\ proc = ProcInit
  /\ cli = CliNone
  /\ CMD_TIMEOUT_MS \in TimeoutChoices
  /\ ACTIVE_CHILDREN = {}
  /\ inv = [c \in Calls |-> InvInit]
  /\ child = [c \in Calls |-> ChildInit]
  /\ todo = {}
  /\ BEND_JS_CACHE = <<>>
  /\ BEND_HVM_CACHE = <<>>
  /\ HVM_BIN_CACHE = <<>>
  /\ reqs = <<>>
  /\ rows = <<>>
  /\ modes = <<>>
  /\ cells = <<>>
  /\ cur = CurInit
  /\ had_error = FALSE
  /\ ran = {}
  /\ smp \in {SmpStart(ScenarioCfg, OnceSteady(d, f)) :
                d \in 0..MaxSteady, f \in {"never", "sometimes"}}

SpecScenario == ScenarioInit /\ [][SampleNext]_vars

\* Any MaxReqs requests to the three compile caches, each build succeeding
\* or failing.
CacheInit ==
  /\ SHUTTING_DOWN = FALSE
  /\ proc = ProcInit
  /\ cli = CliNone
  /\ CMD_TIMEOUT_MS = 20 * 60 * 1000
  /\ ACTIVE_CHILDREN = {}
  /\ inv = [c \in Calls |-> InvInit]
  /\ child = [c \in Calls |-> ChildInit]
  /\ todo = {}
  /\ smp = SmpStart(DEF_CFG, OnceAny)
  /\ BEND_JS_CACHE = <<>>
  /\ BEND_HVM_CACHE = <<>>
  /\ HVM_BIN_CACHE = <<>>
  /\ reqs = <<>>
  /\ rows = <<>>
  /\ modes = <<>>
  /\ cells = <<>>
  /\ cur = CurInit
  /\ had_error = FALSE
  /\ ran = {}

CacheNext == ReqBin \/ ReqHvm \/ ReqJs

SpecCache == CacheInit /\ [][CacheNext]_vars

\* The cells of one row under any list of Bend modes, with the Bend commands
\* the environment can name.
RowInit ==
  /\ SHUTTING_DOWN = FALSE
  /\ proc = ProcInit
  /\ cli \in [pc : {"row"}, args : {<<>>}, tools : BendCmdSets]
  /\ CMD_TIMEOUT_MS = 20 * 60 * 1000
  /\ ACTIVE_CHILDREN = {}
  /\ inv = [c \in Calls |-> InvInit]
  /\ child = [c \in Calls |-> ChildInit]
  /\ todo = {}
  /\ smp = SmpStart(DEF_CFG, OnceAny)
  /\ BEND_JS_CACHE = <<>>
  /\ BEND_HVM_CACHE = <<>>
  /\ HVM_BIN_CACHE = <<>>
  /\ reqs = <<>>
  /\ rows = <<>>
  /\ modes = <<>>
  /\ cells = <<>>
  /\ cur = CurInit
  /\ had_error = FALSE
  /\ ran = {}

RowNext == RowJs \/ RowHvm

SpecRow == RowInit /\ [][RowNext]_vars

\* One run of bench_all over every row list and mode list of the bounds.
MatrixInit ==
  /\ SHUTTING_DOWN = FALSE
  /\ proc = ProcInit
  /\ cli = CliNone
  /\ CMD_TIMEOUT_MS = 20 * 60 * 1000
  /\ ACTIVE_CHILDREN = {}
  /\ inv = [c \in Calls |-> InvInit]
  /\ child = [c \in Calls |-> ChildInit]
  /\ todo = {}
  /\ smp = SmpStart(DEF_CFG, OnceAny)
  /\ BEND_JS_CACHE = <<>>
  /\ BEND_HVM_CACHE = <<>>
  /\ HVM_BIN_CACHE = <<>>
  /\ reqs = <<>>
  /\ rows \in RowLists
  /\ modes \in ModeLists
  /\ cells = <<>>
  /\ cur = CurInit
  /\ had_error = FALSE
  /\ ran = {}

MatrixNext ==
  \/ NoRows
  \/ MatrixBuild
  \/ CellSkip
  \/ CellStart
  \/ StepJs
  \/ StepHvm
  \/ StepBin
  \/ StepSample
  \/ MatrixEnd

SpecMatrix == MatrixInit /\ [][MatrixNext]_vars

\* The whole program: main with a command line, then bench_all, with an
\* interrupt that may come at any moment; after process.exit nothing of the
\* harness runs.
MainInit ==
  /\ SHUTTING_DOWN = FALSE
  /\ proc = ProcInit
  /\ cli \in [pc : {"start"}, args : ArgLists, tools : ToolSets]
  /\ CMD_TIMEOUT_MS = 20 * 60 * 1000
  /\ ACTIVE_CHILDREN = {}
  /\ inv = [c \in Calls |-> InvInit]
  /\ child = [c \in Calls |-> ChildInit]
  /\ todo = {}
  /\ smp = SmpStart(DEF_CFG, OnceAny)
  /\ BEND_JS_CACHE = <<>>
  /\ BEND_HVM_CACHE = <<>>
  /\ HVM_BIN_CACHE = <<>>
  /\ reqs = <<>>
  /\ rows \in MainRows
  /\ modes = <<>>
  /\ cells = <<>>
  /\ cur = CurInit
  /\ had_error = FALSE
  /\ ran = {}

Bench == cli.pc = "bench" /\ Alive

MainNext ==
  \/ MainStart
  \/ Bench /\ NoRows
  \/ Bench /\ MatrixBuild
  \/ Bench /\ CellSkip
  \/ Bench /\ CellStart
  \/ Bench /\ StepJs
  \/ Bench /\ StepHvm
  \/ Bench /\ StepBin
  \/ Bench /\ StepSample
  \/ Bench /\ MatrixEnd
  \/ MainReturn
  \/ \E sig \in Signals : on_signal(sig)

SpecMain == MainInit /\ [][MainNext]_vars

\* The mode lists over bend-bun, bend-hvmc and hvmc with one thread, which
\* between them take every step a run function can take.
ModeLists1 ==
  { ms \in ModeLists :
      \A i \in 1..Len(ms) :
        /\ ms[i].threads = 1
        /\ ms[i].run \in {"mode_bend_bun", "mode_bend_hvmc", "mode_hvmc"} }

\* One run of bench_all in which every step that can be taken is taken in
\* the end: the synchronous code runs on, and every awaited compile or
\* sampling settles.
MatrixLiveInit ==
  /\ SHUTTING_DOWN = FALSE
  /\ proc = ProcInit
  /\ cli = CliNone
  /\ CMD_TIMEOUT_MS = 20 * 60 * 1000
  /\ ACTIVE_CHILDREN = {}
  /\ inv = [c \in Calls |-> InvInit]
  /\ child = [c \in Calls |-> ChildInit]
  /\ todo = {}
  /\ smp = SmpStart(DEF_CFG, OnceAny)
  /\ BEND_JS_CACHE = <<>>
  /\ BEND_HVM_CACHE = <<>>
  /\ HVM_BIN_CACHE = <<>>
  /\ reqs = <<>>
  /\ rows \in RowLists
  /\ modes \in ModeLists1
  /\ cells = <<>>
  /\ cur = CurInit
  /\ had_error = FALSE
  /\ ran = {}

SpecMatrixLive ==
  MatrixLiveInit /\ [][MatrixNext]_vars /\ WF_vars(MatrixNext)

\* ------------------------------------------------------------------ claims

Settled(c) == inv[c].promise \in {"fulfilled", "rejected"}

\* C1 as stated: for every invocation and every interleaving of close, error,
\* overflowing chunks and the deadline timer, resolve and reject together are
\* called exactly once, and clearTimeout and the registry removal are each
\* done exactly once per invocation.
C1_AsStated ==
  \A c \in Calls :
    /\ inv[c].n_resolve + inv[c].n_reject <= 1
    /\ inv[c].n_clear <= 1
    /\ inv[c].n_delete <= 1
    /\ Settled(c) =>
         /\ inv[c].n_resolve + inv[c].n_reject = 1
         /\ inv[c].n_clear = 1
         /\ inv[c].n_delete = 1

\* C1 amended: resolve and reject together are called exactly once and
\* clearTimeout exactly once per finalized invocation, never more; the
\* registry removal is done exactly once when the spawn gave a pid and not at
\* all when it gave none; before finalization none of them has happened.
C1_OneShot ==
  \A c \in Calls :
    LET n == IF inv[c].done THEN 1 ELSE 0
    IN  /\ inv[c].n_resolve + inv[c].n_reject = n
        /\ inv[c].n_clear = n
        /\ inv[c].n_delete = IF inv[c].pid # NULL THEN n ELSE 0
        /\ inv[c].done <=> Settled(c)
        /\ inv[c].promise = "fulfilled" <=> inv[c].n_resolve = 1

\* C1 witness: the deadline timer finalized the call, then an overflowing
\* chunk and the 'close' event arrived and found it finished.
C1_Witness ==
  \E c \in Calls :
    /\ inv[c].timer = "fired"
    /\ inv[c].out_len + inv[c].err_len > MAX_BUFFER
    /\ child[c].closed
    /\ inv[c].n_reject = 1

\* C2: once the deadline timer has fired (the child had not closed), the
\* whole process group has been killed and the call is rejected with a
\* message that starts with the timeout marker followed by the configured
\* timeout in milliseconds; later events, 'close' included, leave it so.
C2_Timeout ==
  \A c \in Calls :
    inv[c].timer = "fired" =>
      /\ inv[c].promise = "rejected"
      /\ IsPrefix(<<"timed out after ", ToString(CMD_TIMEOUT_MS), "ms: ">>,
                  inv[c].value)
      /\ child[c].alive = {}

\* C2 witness: the timer fired while the leader was running, and the
\* 'close' event came afterwards.
C2_Witness ==
  \E c \in Calls :
    /\ inv[c].timer = "fired"
    /\ "leader" \in child[c].killed
    /\ child[c].closed
    /\ CMD_TIMEOUT_MS = 1500

\* C3: when run_cmd has returned a timeout outcome, no process of the
\* child's group is alive (every descendant is in the group and dies on
\* SIGKILL).
C3_NoSurvivor ==
  \A c \in Calls :
    (inv[c].promise = "rejected" /\ inv[c].value = timeout_msg(c)) =>
      child[c].alive = {}

\* C3 witness: a timeout whose kill ended the leader and a subprocess of it.
C3_Witness ==
  \E c \in Calls :
    /\ inv[c].promise = "rejected"
    /\ err_is_timeout(inv[c].value)
    /\ child[c].killed = Procs

Overflowed(c) == inv[c].out_len + inv[c].err_len > MAX_BUFFER

\* C4 as stated: whenever the bytes received on stdout plus stderr exceed
\* MAX_BUFFER, the group has been killed and the call is rejected with the
\* output-exceeded failure.
C4_AsStated ==
  \A c \in Calls :
    Overflowed(c) =>
      /\ inv[c].promise = "rejected"
      /\ inv[c].value[1] = "output exceeded max buffer: "
      /\ child[c].alive = {}

\* C4 amended: whenever the bytes received exceed MAX_BUFFER the group has
\* been killed and the call is rejected, never resolved, also when the child
\* then closes with code 0: with the output-exceeded failure (no exit
\* diagnostic) if the ceiling was passed before the deadline timer fired,
\* with the timeout outcome if the timer had fired first.
C4_Overflow ==
  \A c \in Calls :
    Overflowed(c) =>
      /\ inv[c].promise = "rejected"
      /\ inv[c].n_resolve = 0
      /\ child[c].alive = {}
      /\ IF inv[c].timer = "fired"
         THEN IsPrefix(<<"timed out after ">>, inv[c].value)
         ELSE inv[c].value =
                <<"output exceeded max buffer: ", CmdOf[c].cmd, " ",
                  CmdOf[c].args[1]>>

\* C4 witness: stderr bytes took the total over the ceiling after the leader
\* had exited with code 0, and the 'close' event then came with that code.
C4_Witness ==
  \E c \in Calls :
    /\ Overflowed(c)
    /\ inv[c].err_len > 0
    /\ inv[c].out_len <= MAX_BUFFER
    /\ inv[c].timer = "cleared"
    /\ child[c].closed
    /\ child[c].code = "0"

AllWs(s) == \A k \in 1..Len(s) : IsWs(s[k])

\* t is s without its leading and trailing whitespace.
IsTrimOf(t, s) ==
  \E a, b \in 0..Len(s) :
    /\ a + Len(t) + b = Len(s)
    /\ \A k \in 1..a : IsWs(s[k])
    /\ \A k \in (Len(s) - b + 1)..Len(s) : IsWs(s[k])
    /\ t = SubSeq(s, a + 1, Len(s) - b)
    /\ t # <<>> => ~IsWs(t[1]) /\ ~IsWs(t[Len(t)])

\* The child closed before any timeout or overflow.
NormalClose(c) ==
  /\ inv[c].pid # NULL
  /\ child[c].closed
  /\ inv[c].timer # "fired"
  /\ ~Overflowed(c)

\* The outcome C5 states for a normal close, the exit code left aside.
C5_Outcome(c) ==
  LET out == BufConcat(inv[c].out_bufs)
      err == BufConcat(inv[c].err_bufs)
  IN  IF child[c].code = "0"
      THEN /\ inv[c].promise = "fulfilled"
           /\ inv[c].value = out
      ELSE /\ inv[c].promise = "rejected"
           /\ IF ~AllWs(err) THEN IsTrimOf(inv[c].value, err)
              ELSE IF ~AllWs(out) THEN IsTrimOf(inv[c].value, out)
              ELSE inv[c].value =
                     <<"command failed: ", CmdOf[c].cmd, " ", CmdOf[c].args[1]>>

C6_SpawnError ==
  \A c \in Calls :
    child[c].errev # "none" =>
      /\ inv[c].pid = NULL
      /\ PidOf[c] \notin ACTIVE_CHILDREN
      /\ child[c].errev = "emitted" =>
           /\ inv[c].promise = "rejected"
           /\ inv[c].timer = "cleared"
           /\ inv[c].value =
                IF child[c].err.code = "ENOENT"
                THEN <<"not found in $PATH: ", "\"", CmdOf[c].cmd, "\"">>
                ELSE child[c].err.message
           /\ inv[c].value[1] = "not found in $PATH: "
                <=> child[c].err.code = "ENOENT"

\* C6 witness: a spawn refused with EACCES, its 'error' and 'close' events
\* both delivered.
C6_Witness ==
  \E c \in Calls :
    /\ child[c].errev = "emitted"
    /\ child[c].err.code = "EACCES"
    /\ child[c].closed
    /\ inv[c].promise = "rejected"

\* C7: the registry holds the pid of an invocation exactly while the call is
\* pending: from the successful spawn to the outcome, whatever the outcome;
\* a second removal changes nothing.
C7_Registry ==
  \A c \in Calls :
    /\ inv[c].pid # NULL =>
         (inv[c].pid \in ACTIVE_CHILDREN <=> inv[c].promise = "pending")
    /\ inv[c].pid = NULL => PidOf[c] \notin ACTIVE_CHILDREN
    /\ Settled(c) =>
         registry_delete(ACTIVE_CHILDREN, inv[c]) = ACTIVE_CHILDREN

\* C7 witness: a call that resolved after its child wrote output and exited 0.
C7_Witness ==
  \E c \in Calls :
    /\ inv[c].promise = "fulfilled"
    /\ inv[c].pid = PidOf[c]
    /\ inv[c].out_len > 0
    /\ inv[c].pid \notin ACTIVE_CHILDREN

ValidCfg(cfg) == 1 <= cfg.min_runs /\ cfg.min_runs <= cfg.max_runs

\* C8: for 1 <= min_runs <= max_runs and any durations, run_sampled never
\* invokes run_once more than warmup + max_runs times, and when it returns
\* (run_once never failed) it has invoked it at least warmup + 1 times.
C8_CallBounds ==
  ValidCfg(smp.cfg) =>
    /\ smp.calls <= smp.cfg.warmup + smp.cfg.max_runs
    /\ smp.pc = "done" => smp.calls >= smp.cfg.warmup + 1

\* C8 witness: a session that returned after warmup + max_runs invocations,
\* more than warmup + 1.
C8_Witness ==
  /\ smp.pc = "done"
  /\ ValidCfg(smp.cfg)
  /\ smp.cfg.warmup > 0
  /\ smp.cfg.max_runs > 1
  /\ smp.calls = smp.cfg.warmup + smp.cfg.max_runs

RECURSIVE SumTo(_, _)
SumTo(s, n) == IF n = 0 THEN 0 ELSE s[n] + SumTo(s, n - 1)

\* The rule C9 states for going on after n trials that took s in total.
C9_Continue(n, s, cfg) ==
  \/ n = 0
  \/ n < cfg.max_runs /\ n < cfg.min_runs /\ s < cfg.min_secs

\* n >= 1 trials are enough by C9's account.
C9_Enough(n, durs, cfg) ==
  \/ n >= cfg.max_runs
  \/ n >= cfg.min_runs
  \/ SumTo(durs, n) >= cfg.min_secs

\* C9: for every configuration (max_runs = 0 too), every timed trial was
\* started exactly when count = 0 or count < max_runs, count < min_runs and
\* the cumulative time < min_secs; so at return the number of trials is the
\* least n >= 1 with n >= max_runs, n >= min_runs or the first n durations
\* summing to min_secs or more, and the mean is over at least one trial.
C9_StoppingRule ==
  /\ smp.cnt = Len(smp.durs) /\ smp.sum = SumTo(smp.durs, smp.cnt)
  /\ \A n \in 0..(smp.cnt - 1) :
       C9_Continue(n, SumTo(smp.durs, n), smp.cfg)
  /\ smp.pc = "done" =>
       /\ ~C9_Continue(smp.cnt, smp.sum, smp.cfg)
       /\ smp.cnt >= 1
       /\ C9_Enough(smp.cnt, smp.durs, smp.cfg)
       /\ \A n \in 1..(smp.cnt - 1) : ~C9_Enough(n, smp.durs, smp.cfg)
       /\ smp.ret # NaN /\ smp.ret.den = smp.cnt

\* C9 witness: a session stopped by the cumulative time before min_runs and
\* max_runs were reached.
C9_Witness ==
  /\ smp.pc = "done"
  /\ smp.cnt = 2
  /\ smp.cnt < smp.cfg.min_runs
  /\ smp.cnt < smp.cfg.max_runs
  /\ smp.sum >= smp.cfg.min_secs

\* The case of C10: min_secs = 0, a valid configuration, trials of zero
\* duration, and the session has returned.
C10_Case ==
  /\ smp.pc = "done"
  /\ ValidCfg(smp.cfg)
  /\ smp.cfg.min_secs = 0
  /\ \A k \in 1..Len(smp.durs) : smp.durs[k] = 0

\* C10 as stated: in that case run_sampled performs exactly min_runs timed
\* trials and never more than max_runs.
C10_AsStated ==
  C10_Case => smp.cnt = smp.cfg.min_runs /\ smp.cnt <= smp.cfg.max_runs

\* C10 amended: in that case run_sampled performs exactly one timed trial,
\* whatever min_runs is (min_secs = 0 is met at once), and never more than
\* max_runs.
C10_OneTrial ==
  C10_Case => smp.cnt = 1 /\ smp.cnt <= smp.cfg.max_runs

\* C10 witness: min_runs = 3 and max_runs = 3, yet one trial.
C10_Witness ==
  /\ C10_Case
  /\ smp.cfg.min_runs = 3
  /\ smp.cfg.max_runs = 3
  /\ smp.cnt = 1

\* ---- C11 ----
\* A session under ScenarioCfg whose run_once takes d ticks and never fails.
SteadySession(d) ==
  /\ smp.cfg = ScenarioCfg
  /\ smp.once = OnceSteady(d, "never")

\* C11 as stated: with {warmup=1, min_runs=3, max_runs=10, min_secs=0.5} and
\* a run_once that always takes 5 s (50 ticks) and never fails, run_sampled
\* has performed exactly 3 timed trials when it returns.
C11_AsStated ==
  (SteadySession(50) /\ smp.pc = "done") => smp.cnt = 3

\* C11 amended: in that scenario run_sampled performs exactly one timed
\* trial (two invocations of run_once with the warmup) and returns 5 s:
\* after the first trial the cumulative time already reaches min_secs.
C11_FiveSecs ==
  /\ (SteadySession(50) /\ smp.pc = "done") =>
        /\ smp.cnt = 1
        /\ smp.calls = 2
        /\ smp.durs = <<50>>
        /\ smp.ret.den # 0 /\ smp.ret.num = 50 * smp.ret.den
  /\ (SteadySession(50) /\ smp.pc = "timed" /\ smp.cnt >= 1) =>
        ~sample_needs_more(smp.cnt, smp.sum, smp.cfg)
  /\ SteadySession(50) => smp.cnt <= 1

C11_Witness ==
  SteadySession(50) /\ smp.pc = "done" /\ smp.cnt = 1

\* ---- C12 ----
\* C12: with the same configuration and a run_once that always takes 0.2 s
\* (2 ticks) and never fails, run_sampled performs exactly 3 timed trials,
\* 4 invocations in total, and returns a mean of 0.2 s.
C12_FifthOfSec ==
  /\ (SteadySession(2) /\ smp.pc = "done") =>
        /\ smp.cnt = 3
        /\ smp.calls = 4
        /\ smp.durs = <<2, 2, 2>>
        /\ smp.ret.den # 0 /\ smp.ret.num = 2 * smp.ret.den
  /\ (SteadySession(2) /\ smp.pc = "timed" /\ smp.cnt < 3) =>
        sample_needs_more(smp.cnt, smp.sum, smp.cfg)
  /\ SteadySession(2) => smp.cnt <= 3

C12_Witness ==
  SteadySession(2) /\ smp.pc = "done" /\ smp.cnt = 3 /\ smp.calls = 4

\* ---- C13 ----
\* The latest invocation of run_once rejected.
OnceRejected == smp.last \in RunErrs

\* run_sampled rejected while in its timed loop.
TimedFailure == smp.pc = "failed" /\ ~warmup_pending(smp)

C13_State ==
  /\ OnceRejected =>
        /\ smp.pc = "failed"
        /\ smp.err = smp.last
        /\ smp.ret = NaN
  /\ TimedFailure =>
        /\ OnceRejected
        /\ smp.calls = smp.cfg.warmup + smp.cnt + 1
        /\ Len(smp.durs) = smp.cnt
  /\ smp.once.fail = "always" =>
        /\ smp.cnt = 0
        /\ smp.calls <= 1
        /\ smp.pc # "done"

C13_Step ==
  smp.pc = "failed" => smp' = smp

\* C13: when an invocation of run_once rejects during a timed trial,
\* run_sampled rejects with that same error at once: run_once is never
\* invoked again and no mean is returned; over a run_once that always
\* rejects, no more than one invocation (so at most one timed trial) is
\* attempted.
C13_FailFast == [](C13_State) /\ [][C13_Step]_vars

C13_Witness ==
  /\ TimedFailure
  /\ smp.cnt >= 1
  /\ smp.err \in RunErrs
  /\ smp.calls = smp.cfg.warmup + smp.cnt + 1

\* ---- C14 ----
\* run_sampled rejected while in its warmup loop.
WarmupFailure == smp.pc = "failed" /\ warmup_pending(smp)

\* C14: run_sampled invokes run_once exactly cfg.warmup times before the
\* first timed trial, and those calls count neither in cnt nor in sum; when
\* a warmup call rejects, run_sampled rejects with that error and no timed
\* trial has been started.
C14_Warmup ==
  /\ smp.pc \in {"timed", "done"} =>
        /\ smp.i = smp.cfg.warmup
        /\ smp.calls = smp.cfg.warmup + smp.cnt
        /\ Len(smp.durs) = smp.cnt
        /\ smp.sum = SumTo(smp.durs, smp.cnt)
  /\ smp.pc = "warmup" =>
        /\ smp.calls = smp.i
        /\ smp.i <= smp.cfg.warmup
        /\ smp.cnt = 0 /\ smp.sum = 0 /\ smp.durs = <<>>
  /\ WarmupFailure =>
        /\ smp.err = smp.last /\ smp.err \in RunErrs
        /\ smp.calls = smp.i + 1
        /\ smp.cnt = 0 /\ smp.sum = 0 /\ smp.durs = <<>>
        /\ smp.ret = NaN

C14_Witness ==
  /\ smp.pc = "timed"
  /\ smp.cfg.warmup = 2
  /\ smp.calls = 3
  /\ smp.cnt = 1
  /\ smp.sum = smp.durs[1]
  /\ smp.sum > 0

\* ---- C15 ----
C15_Value ==
  smp.pc = "done" =>
    /\ smp.cnt >= 1
    /\ Len(smp.durs) = smp.cnt
    /\ smp.ret.den = smp.cnt
    /\ smp.ret.num = SumTo(smp.durs, Len(smp.durs))
    /\ smp.err = <<>>

C15_Step ==
  /\ (smp.pc = "timed" /\ Len(smp'.durs) # Len(smp.durs)) =>
        /\ Len(smp'.durs) = Len(smp.durs) + 1
        /\ smp'.cnt = smp.cnt + 1
        /\ smp'.sum = smp.sum + smp'.durs[Len(smp'.durs)]
        /\ smp'.sum >= smp.sum
  /\ smp.pc = "timed" =>
        /\ smp'.cnt >= smp.cnt
        /\ smp'.sum >= smp.sum
        /\ smp'.cnt = smp.cnt => smp'.sum = smp.sum

\* C15: when run_sampled returns normally its value is the sum of the
\* durations of the timed trials over their number; during the timed loop
\* each trial raises cnt by exactly one and adds its (non-negative,
\* monotonic-clock) duration to sum, which therefore never decreases.
C15_Mean == [](C15_Value) /\ [][C15_Step]_vars

C15_Witness ==
  /\ smp.pc = "done"
  /\ smp.durs = <<1, 1, 2>>
  /\ smp.ret = [num |-> 4, den |-> 3]

\* ---- C16 ----
\* Requests i and j went to the same cache with the same key.
SameKey(i, j) ==
  /\ reqs[i].cache = reqs[j].cache
  /\ reqs[i].key = reqs[j].key

CacheOf(name) ==
  CASE name = "BEND_JS_CACHE"  -> BEND_JS_CACHE
    [] name = "BEND_HVM_CACHE" -> BEND_HVM_CACHE
    [] name = "HVM_BIN_CACHE"  -> HVM_BIN_CACHE

\* The builds executed so far for the key of request i.
BuildsOf(i) ==
  Cardinality({k \in 1..Len(reqs) : SameKey(i, k) /\ reqs[k].built})

\* C16: of two successive requests to one compile cache with the same key,
\* the first of which built successfully, the second builds nothing and
\* returns the path the first returned, so the build ran exactly once.
C16_BuildOnce ==
  \A i \in 1..Len(reqs) : \A j \in 1..Len(reqs) :
    (j = i + 1 /\ SameKey(i, j) /\ reqs[i].built /\ reqs[i].ok) =>
      /\ ~reqs[j].built
      /\ reqs[j].ok
      /\ reqs[j].ret = reqs[i].ret
      /\ CacheOf(reqs[i].cache)[reqs[i].key] = reqs[i].ret
      /\ Cardinality({k \in {i, j} : reqs[k].built}) = 1

C16_Witness ==
  /\ Len(reqs) >= 2
  /\ SameKey(1, 2)
  /\ reqs[1].cache = "HVM_BIN_CACHE"
  /\ reqs[1].built /\ reqs[1].ok
  /\ ~reqs[2].built
  /\ reqs[2].ret = reqs[1].ret

\* ---- C17 ----
\* C17 as stated: over a run of the matrix no cache key has its build
\* executed more than once.
C17_AsStated ==
  \A i \in 1..Len(reqs) : BuildsOf(i) <= 1

\* C17 amended: over a run of the matrix a key whose build succeeded is
\* never built again, so every key has at most one successful build; the
\* builds of a key that came before were all failures.
C17_OneSuccess ==
  \A i \in 1..Len(reqs) : \A j \in 1..Len(reqs) :
    (i < j /\ SameKey(i, j) /\ reqs[j].built) =>
      /\ reqs[i].built
      /\ ~reqs[i].ok

C17_Witness ==
  /\ cur.pc = "end"
  /\ \E i \in 1..Len(reqs) : \E j \in 1..Len(reqs) :
       /\ i < j /\ SameKey(i, j)
       /\ reqs[i].built /\ ~reqs[i].ok
       /\ reqs[j].built /\ reqs[j].ok
  /\ \E i \in 1..Len(reqs) : \E j \in 1..Len(reqs) :
       /\ i < j /\ SameKey(i, j)
       /\ reqs[i].built /\ reqs[i].ok
       /\ ~reqs[j].built

\* ---- C18 ----
\* The step made a request whose build failed.
FailedBuildStep ==
  /\ Len(reqs') = Len(reqs) + 1
  /\ reqs'[Len(reqs')].built
  /\ ~reqs'[Len(reqs')].ok

C18_Step ==
  FailedBuildStep =>
    /\ BEND_JS_CACHE' = BEND_JS_CACHE
    /\ BEND_HVM_CACHE' = BEND_HVM_CACHE
    /\ HVM_BIN_CACHE' = HVM_BIN_CACHE
    /\ LET q == reqs'[Len(reqs')]
       IN /\ q.cache = "BEND_JS_CACHE" => q.key \notin DOMAIN BEND_JS_CACHE'
          /\ q.cache = "BEND_HVM_CACHE" => q.key \notin DOMAIN BEND_HVM_CACHE'
          /\ q.cache = "HVM_BIN_CACHE" => q.key \notin DOMAIN HVM_BIN_CACHE'

\* Request j is the first after request i for the same key.
NextSameKey(i, j) ==
  /\ i < j
  /\ SameKey(i, j)
  /\ \A k \in (i + 1)..(j - 1) : ~SameKey(i, k)

C18_Retry ==
  \A i \in 1..Len(reqs) : \A j \in 1..Len(reqs) :
    (NextSameKey(i, j) /\ reqs[i].built /\ ~reqs[i].ok) => reqs[j].built

\* C18: a failed build stores no entry for its key and leaves every entry
\* of every cache as it was; the next request for that key builds again.
C18_FailureNotCached == [](C18_Retry) /\ [][C18_Step]_vars

C18_Witness ==
  /\ Len(reqs) = 3
  /\ reqs[1].built /\ reqs[1].ok
  /\ ~SameKey(1, 2) /\ reqs[1].cache = reqs[2].cache
  /\ reqs[2].built /\ ~reqs[2].ok
  /\ SameKey(2, 3) /\ reqs[3].built /\ reqs[3].ok
  /\ DOMAIN CacheOf(reqs[1].cache) = {reqs[1].key, reqs[2].key}

\* ---- C19 ----
\* The cells of the matrix, once built.
CellIds ==
  IF cur.pc = "build" THEN {}
  ELSE { <<r, f>> : r \in 1..Len(rows), f \in Flags }

ModeOfFlag(f) == CHOOSE md \in {modes[m] : m \in 1..Len(modes)} : md.flag = f

\* The row lacks the input file the mode reads.
LacksInput(r, f) == InputFile(ModeOfFlag(f), rows[r]) = null

C19_State ==
  \A id \in CellIds :
    /\ cells[id[1]][id[2]].state = "na" <=> LacksInput(id[1], id[2])
    /\ cells[id[1]][id[2]].state = "na" => id \notin ran
    /\ id \in ran => ~LacksInput(id[1], id[2])

C19_Step ==
  /\ \A id \in CellIds :
       cells[id[1]][id[2]].state = "na" =>
         /\ cells'[id[1]][id[2]] = cells[id[1]][id[2]]
         /\ id \notin ran'
  /\ \A id \in CellIds :
       cells[id[1]][id[2]].state # "na" => cells'[id[1]][id[2]].state # "na"

\* C19: a cell is created not-applicable exactly when its row lacks the
\* input file of its mode (the bend file for bend-input modes, the hvm file
\* for hvm-input modes); such a cell never changes, no other cell becomes
\* not-applicable, and mode.run is never invoked for a not-applicable cell.
C19_NotApplicable == [](C19_State) /\ [][C19_Step]_vars

C19_Witness ==
  /\ cur.pc = "end"
  /\ \E id \in CellIds : cells[id[1]][id[2]].state = "na"
  /\ \E id \in CellIds : cells[id[1]][id[2]].state = "done" /\ id \in ran
  /\ \E r \in 1..Len(rows) : rows[r].bend_file = null
  /\ \E r \in 1..Len(rows) : rows[r].hvm_file = null

\* ---- C20 ----
\* The state changes a cell may make.
CellMoves ==
  { <<"pending", "running">>, <<"running", "done">>,
    <<"running", "error">>, <<"running", "timeout">> }

C20_Step ==
  \A id \in CellIds :
    LET old == cells[id[1]][id[2]].state
        new == cells'[id[1]][id[2]].state
    IN old # new => <<old, new>> \in CellMoves

\* At most the cell under the cursor is running, and the cells behind the
\* cursor are terminal, those ahead not yet started.
C20_State ==
  \A id \in CellIds :
    LET st == cells[id[1]][id[2]].state
    IN /\ st \in {"pending", "running", "done", "error", "timeout", "na"}
       /\ st = "running" =>
            /\ cur.pc \in {"js", "hvm", "bin", "sample"}
            /\ id = <<cur.r, CurMode.flag>>
       /\ cur.pc = "end" => st \in {"done", "error", "timeout", "na"}
       /\ st \in {"done", "error", "timeout"} => id \in ran

\* C20: a cell changes state only along pending -> running -> done | error
\* | timeout: never from pending straight to a terminal state, never back to
\* pending or running, and never out of done, error or timeout.
C20_CellLifecycle == [](C20_State) /\ [][C20_Step]_vars

C20_Witness ==
  /\ cur.pc = "end"
  /\ \E id \in CellIds : cells[id[1]][id[2]].state = "done"
  /\ \E id \in CellIds : cells[id[1]][id[2]].state = "error"
  /\ \E id \in CellIds : cells[id[1]][id[2]].state = "timeout"

\* ---- C21 ----
Terminal == {"done", "error", "timeout"}

\* The position of a flag in the mode list.
ModeIdx(f) == CHOOSE m \in 1..Len(modes) : modes[m].flag = f

\* Cell a comes before cell b in (row, mode) order.
Before(a, b) ==
  \/ a[1] < b[1]
  \/ a[1] = b[1] /\ ModeIdx(a[2]) < ModeIdx(b[2])

StateOf(id) == cells[id[1]][id[2]].state

C21_State ==
  /\ Cardinality({id \in CellIds : StateOf(id) = "running"}) <= 1
  /\ \A a \in CellIds : \A b \in CellIds :
       (Before(a, b) /\ StateOf(b) \notin {"pending", "na"}) =>
         StateOf(a) \in Terminal \cup {"na"}

C21_Step ==
  \A b \in CellIds :
    (StateOf(b) = "pending" /\ cells'[b[1]][b[2]].state # "pending") =>
      \A a \in CellIds : Before(a, b) => StateOf(a) \in Terminal \cup {"na"}

\* C21: cells are processed one at a time in row-major order: at most one
\* cell is running at any moment, and a cell leaves pending only when every
\* applicable cell before it in (row, mode) order is done, error or timeout.
C21_RowMajor == [](C21_State) /\ [][C21_Step]_vars

C21_Witness ==
  /\ Len(rows) = 2 /\ Len(modes) = 2
  /\ cur.r = 2 /\ cur.m = 1
  /\ StateOf(<<2, modes[1].flag>>) = "running"
  /\ StateOf(<<1, modes[1].flag>>) \in Terminal
  /\ StateOf(<<1, modes[2].flag>>) \in Terminal
  /\ StateOf(<<2, modes[2].flag>>) = "pending"

\* ---- C22 ----
\* Every cell of the matrix is done, error, timeout or not-applicable.
AllSettled ==
  /\ cur.pc # "build"
  /\ \A id \in CellIds : StateOf(id) \in Terminal \cup {"na"}

\* Some cell failed while another was still to run.
FailedEarly ==
  /\ \E id \in CellIds : StateOf(id) \in {"error", "timeout"}
  /\ \E id \in CellIds : StateOf(id) = "pending"

\* C22: a cell ending in error or timeout does not stop the matrix: when
\* every run function eventually returns or fails, every applicable cell
\* eventually reaches done, error or timeout, whatever came before it.
C22_Continues == (FailedEarly ~> AllSettled) /\ <>AllSettled

C22_Witness ==
  /\ cur.pc = "end"
  /\ AllSettled
  /\ Len(rows) = 2 /\ Len(modes) = 2
  /\ StateOf(<<1, modes[1].flag>>) \in {"error", "timeout"}
  /\ StateOf(<<2, modes[2].flag>>) = "done"

\* Every applicable cell ended in done.
AllDone == \A id \in CellIds : StateOf(id) \in {"done", "na"}

SomeFailed == \E id \in CellIds : StateOf(id) \in {"error", "timeout"}

\* C23 as stated: the exit status returned by bench_all is 0 if and only if
\* every applicable cell ended in done.
C23_AsStated == cur.pc = "end" => (cur.ret = 0 <=> AllDone)

\* C23: when at least one row was discovered, the exit status returned by
\* bench_all is 0 if and only if every applicable cell ended in done; the
\* failure flag is raised as soon as a cell ends in error or timeout and by
\* nothing else, so that not-applicable cells never make the status non-zero;
\* with no row at all bench_all returns 1.
C23_ExitStatus ==
  /\ had_error <=> SomeFailed
  /\ cur.pc = "end" => cur.ret \in {0, 1}
  /\ (cur.pc = "end" /\ rows # <<>>) => (cur.ret = 0 <=> AllDone)
  /\ (cur.pc = "end" /\ rows = <<>>) => cur.ret = 1

C23_Witness ==
  /\ cur.pc = "end"
  /\ cur.ret = 1
  /\ \E a, b, c \in CellIds :
       /\ StateOf(a) = "na"
       /\ StateOf(b) = "done"
       /\ StateOf(c) \in {"error", "timeout"}

\* The cell bench_all's catch branch stores when the run function of a
\* running cell rejects with the error of run_cmd call c: run_sampled and
\* the run functions hand the error on as it is.
CellAfter(c) == cell_caught(cell_running(cell_new("pending")), inv[c].value)

\* C24 as stated: a failing cell is stored as timeout exactly when the
\* failure that ended it was the expiry of run_cmd's deadline timer, and as
\* error for every other failure, whatever the text on stderr; the message
\* of the failure is stored in the cell.
C24_AsStated ==
  \A c \in Calls :
    inv[c].promise = "rejected" =>
      /\ CellAfter(c).state = "timeout" <=> inv[c].timer = "fired"
      /\ CellAfter(c).state = "error" <=> inv[c].timer # "fired"
      /\ CellAfter(c).err = inv[c].value

\* The failure C24 as stated is wrong about: the command closed with a
\* non-zero exit code before the deadline, and the cell is stored as timeout.
C24_Misfiled ==
  \E c \in Calls :
    /\ inv[c].promise = "rejected"
    /\ inv[c].timer = "cleared"
    /\ child[c].code = "1"
    /\ child[c].closed
    /\ CellAfter(c).state = "timeout"

\* The cells whose mode has its input file in the row.
Applicable == { id \in CellIds : ~LacksInput(id[1], id[2]) }

\* A step in which a compile command of the current cell failed.
BuildFailed ==
  /\ Len(reqs') > Len(reqs)
  /\ ~reqs'[Len(reqs')].ok

C25_State ==
  /\ ran \subseteq Applicable
  /\ \A id \in ran : StateOf(id) # "pending"
  /\ (cur.pc = "end" /\ rows # <<>>) => ran = Applicable

C25_Step ==
  /\ \A id \in ran :
       /\ id \in CellIds
       /\ StateOf(id) # "running" => cells'[id[1]][id[2]] = cells[id[1]][id[2]]
  /\ BuildFailed =>
       /\ cells'[cur.r][CurMode.flag].state \in {"error", "timeout"}
       /\ <<cur'.r, cur'.m>> # <<cur.r, cur.m>>
       /\ Len(reqs') = Len(reqs) + 1

\* C25: nothing is retried: a cell whose run function was invoked is never
\* invoked again, at the end the run function of every applicable cell was
\* invoked, and a failed compile command ends its cell and moves the loops
\* on without the command being issued again.
C25_NoRetry == [](C25_State) /\ [][C25_Step]_vars

C25_Witness ==
  /\ cur.pc = "end"
  /\ Cardinality(ran) = 4
  /\ \E i \in 1..Len(reqs) : ~reqs[i].ok
  /\ \E id \in ran : StateOf(id) = "timeout"

\* The calls whose pid was in the registry when the process stopped: their
\* closures are as the last callback left them.
Registered(c) == inv[c].pid # NULL /\ ~inv[c].done

C27_AsStated == proc.n_cleanup <= 1 /\ proc.n_rm <= 1

C27_State ==
  /\ \A p \in Pids : proc.swept[p] <= 1
  /\ proc.n_rm = proc.n_cleanup
  /\ SHUTTING_DOWN => (~Alive /\ proc.n_cleanup = 2)
  /\ (~Alive /\ ~SHUTTING_DOWN) => proc.n_cleanup = 1
  /\ Alive => (proc.n_cleanup = 0 /\ proc.tmp)

C27_Step ==
  ~Alive => UNCHANGED <<SHUTTING_DOWN, proc, ACTIVE_CHILDREN, inv, todo>>

\* C27: the shutdown of on_signal runs at most once and nothing of the
\* harness runs after it, a later interrupt included; no registered child
\* is swept twice. cleanup_all itself runs twice on an interrupt, in
\* on_signal and in the 'exit' listener, the second time over an empty
\* registry and an absent directory; on the exit of main it runs once.
C27_Once == [](C27_State) /\ [][C27_Step]_vars

C27_Witness ==
  /\ SHUTTING_DOWN
  /\ proc.n_cleanup = 2
  /\ proc.swept["101"] = 1
  /\ proc.swept["102"] = 0

C28_State ==
  \A c \in Calls :
    /\ PidOf[c] \in ACTIVE_CHILDREN <=> Registered(c)
    /\ inv[c].done <=> inv[c].promise \in {"fulfilled", "rejected"}
    /\ inv[c].done => inv[c].timer \in {"cleared", "fired"}
    /\ ~inv[c].done => inv[c].timer \in {"unset", "armed"}

C28_Step ==
  \A c \in Calls : \A d \in Calls \ {c} :
    inv'[c] # inv[c] =>
      /\ inv'[d] = inv[d]
      /\ child'[d] = child[d]
      /\ PidOf[d] \in ACTIVE_CHILDREN' <=> PidOf[d] \in ACTIVE_CHILDREN

\* C28: when two run_cmd calls overlap, each settles by its own events, and
\* a callback of one call (a chunk, its close, its error, its timer) leaves
\* the other call's registry entry, timer, buffers and promise as they were.
C28_Overlap == [](C28_State) /\ [][C28_Step]_vars

\* C28 witness: the second call timed out while the first, which had begun
\* to capture output, is still pending and registered.
C28_Witness ==
  /\ inv["c2"].promise = "rejected"
  /\ inv["c2"].timer = "fired"
  /\ inv["c1"].promise = "pending"
  /\ inv["c1"].timer = "armed"
  /\ inv["c1"].out_bufs # <<>>
  /\ ACTIVE_CHILDREN = {"101"}

\* C29: every run_cmd call returns in the end: a pending call is settled
\* once its deadline timer has fired, even if the child never exits and
\* never closes its streams, given that an armed timer fires in the end.
C29_Returns ==
  \A c \in Calls :
    (inv[c].promise = "pending") ~> (inv[c].promise \in {"fulfilled", "rejected"})

\* C29 witness: the call was settled by its timer while the child, which
\* had written nothing and had not ended by itself, had not closed.
C29_Witness ==
  \E c \in Calls :
    /\ inv[c].promise = "rejected"
    /\ inv[c].value = timeout_msg(c)
    /\ child[c].killed = Procs
    /\ ~child[c].closed
    /\ inv[c].out_bufs = <<>> /\ inv[c].err_bufs = <<>>

C30_State ==
  \A c \in Calls :
    LET r == kill_pg_run(child[c])
    IN /\ r.sent[1] = "group"
       /\ Len(r.sent) = 2 <=> ~group_signal_ok(child[c])
       /\ Len(r.sent) = 2 => r.sent[2] = "leader"
       /\ ~r.raised
       /\ r.k.alive = {}
       /\ child[c].alive = {} => r.k = child[c]

C30_Step ==
  \A c \in Calls :
    (inv[c].timer = "armed" /\ inv'[c].timer = "fired" /\ inv[c].pid # NULL) =>
      child'[c] = kill_pg_run(child[c]).k

\* C30: kill_pg signals the whole process group first; it signals the
\* leader pid if and only if the group signal failed; no error leaves it,
\* whether the signals succeed or fail, and on a process that is already
\* gone it changes nothing.
C30_KillPg == [](C30_State) /\ [][C30_Step]_vars

\* C30 witness: the deadline expired when the leader and its subprocess had
\* both ended by themselves: both signals failed and the call timed out.
C30_Witness ==
  \E c \in Calls :
    /\ inv[c].timer = "fired"
    /\ inv[c].pid # NULL
    /\ child[c].killed = {}
    /\ child[c].alive = {}
    /\ inv[c].value = timeout_msg(c)
    /\ ~child[c].closed

\* ------------------------------------------------------ claims C31 - C40

\* The configuration errors of a command line: a --timeout whose value
\* parse_cli refuses, a mode token that selects no mode, a command that a
\* selected mode needs and that is not found.
BadTimeout(c) == parse_cli(c.args).err # null

UnknownMode(c) ==
  LET toks == parse_cli(c.args).mode_tokens
  IN \E i \in 1..Len(toks) : ~mode_parse(toks[i]).found

SelectedModes(c) ==
  LET toks == parse_cli(c.args).mode_tokens
      P[i \in 0..Len(toks)] ==
        IF i = 0 THEN <<>>
        ELSE P[i - 1] \o mode_parse(toks[i]).mode
  IN P[Len(toks)]

MissingTool(c) == needed_cmds(SelectedModes(c)) \ c.tools # {}

ConfigError(c) == BadTimeout(c) \/ UnknownMode(c) \/ MissingTool(c)

HelpAsked(c) == parse_cli(c.args).show_help

\* Nothing has been spawned and no cell exists or has left pending.
NothingStarted ==
  /\ reqs = <<>>
  /\ ran = {}
  /\ ACTIVE_CHILDREN = {}
  /\ \A r \in 1..Len(cells) : \A m \in 1..Len(cells[r]) :
       cells[r][m].state = "pending"

\* C31 as stated: once main has run on a command line with a configuration
\* error, the program has ended with a non-zero status and nothing was
\* started.  Violated: with --help among the arguments an unknown mode token
\* or a missing tool is never looked at and the status is 0.
C31_AsStated ==
  (cli.pc \in {"bench", "done"} /\ ConfigError(cli))
    => (proc.code \notin {null_num, 0} /\ NothingStarted)

\* C31: once main has run on a command line with an invalid --timeout, or
\* with an unknown mode token or a missing tool and no request for help,
\* the program has ended with a non-zero status, and nothing was spawned
\* and no cell left pending; with a request for help and a valid --timeout
\* it has ended and nothing was started either.
C31_ConfigErrorFatal ==
  (cli.pc \in {"bench", "done"} /\ ConfigError(cli))
    => /\ proc.code # null_num
       /\ NothingStarted
       /\ (BadTimeout(cli) \/ ~HelpAsked(cli)) => proc.code # 0

\* C31 witness: main has ended with status 1 for a command line whose only
\* configuration error is a tool that is not found.
C31_Witness ==
  /\ cli.pc = "done"
  /\ MissingTool(cli) /\ ~BadTimeout(cli) /\ ~UnknownMode(cli) /\ ~HelpAsked(cli)
  /\ proc.code = 1
  /\ ~SHUTTING_DOWN

\* C31 as stated, its refutation reached: status 0 with an unknown mode
\* token on the command line.
C31_HelpWins == cli.pc = "done" /\ UnknownMode(cli) /\ proc.code = 0

\* The sampling configurations the specification calls legal.
LegalCfg(cfg) ==
  /\ cfg.warmup >= 0
  /\ cfg.min_runs >= 1
  /\ cfg.min_runs <= cfg.max_runs

C34_AsStated == \A c \in Calls : ~child[c].late

\* C34, the divergence reached: the deadline timer finalized the call with
\* the output within the ceiling, and a chunk that came afterwards took the
\* total over the ceiling and signalled the group once more.
C34_LateKill ==
  \E c \in Calls :
    /\ child[c].late
    /\ inv[c].timer = "fired"
    /\ inv[c].value = timeout_msg(c)
    /\ Overflowed(c)

\* C35: a call that resolved has captured at most MAX_BUFFER bytes on
\* stdout and stderr together, and a call rejected with the output-exceeded
\* failure has captured more than MAX_BUFFER on the two streams together:
\* a total of exactly MAX_BUFFER is no overflow.
C35_Ceiling ==
  \A c \in Calls :
    /\ inv[c].promise = "fulfilled" =>
         inv[c].out_len + inv[c].err_len <= MAX_BUFFER
    /\ (inv[c].promise = "rejected" /\ inv[c].value = overflow_msg(c)) =>
         inv[c].out_len + inv[c].err_len > MAX_BUFFER

\* C35 witness: a call resolved with exactly MAX_BUFFER bytes captured, some
\* on each stream.
C35_Witness ==
  \E c \in Calls :
    /\ inv[c].promise = "fulfilled"
    /\ inv[c].out_len > 0
    /\ inv[c].err_len > 0
    /\ inv[c].out_len + inv[c].err_len = MAX_BUFFER

\* The request that last wrote the file a request returned, among the
\* successful builds before it; 0 when there is none.
LastWrite(j) ==
  LET ws == {i \in 1..(j - 1) :
               reqs[i].built /\ reqs[i].ok /\ reqs[i].ret = reqs[j].ret}
  IN IF ws = {} THEN 0 ELSE CHOOSE i \in ws : \A k \in ws : k <= i

CacheHit(j) == ~reqs[j].built

\* C36 as stated: the file a cache hit returns was last written by the
\* build for the key of the hit.  Violated: the output path is made from
\* tmp_tok of the key's parts, and two commands such as "bend" and "./bend"
\* give the same token, so the builds for two keys write one file.
C36_AsStated ==
  \A j \in 1..Len(reqs) :
    CacheHit(j) =>
      /\ LastWrite(j) # 0
      /\ reqs[LastWrite(j)].key = reqs[j].key

\* C36, the divergence reached: bend_compile_js_lib returned from its cache
\* the path of the library of one Bend command after the build for the
\* other Bend command had written that file.
C36_Overwritten ==
  \E j \in 1..Len(reqs) :
    /\ CacheHit(j)
    /\ reqs[j].cache = "BEND_JS_CACHE"
    /\ LastWrite(j) # 0
    /\ reqs[LastWrite(j)].key # reqs[j].key

\* C37: in every state of the matrix a cell that is pending, running or
\* not applicable has neither seconds nor an error message, a done cell has
\* seconds and no error message, and an error or timeout cell has an error
\* message and no seconds.
C37_CellFields ==
  \A r \in 1..Len(cells) : \A f \in DOMAIN cells[r] :
    LET cell == cells[r][f]
    IN /\ cell.state \in {"pending", "running", "na", "done", "error", "timeout"}
       /\ cell.state \in {"pending", "running", "na"} =>
            cell.secs = null_num /\ cell.err = null
       /\ cell.state = "done" => cell.secs # null_num /\ cell.err = null
       /\ cell.state \in {"error", "timeout"} =>
            cell.err # null /\ cell.secs = null_num

\* C37 witness: one row holds a done cell and a failed cell, and a later
\* row a cell that is running.
C37_Witness ==
  \E r1, r2 \in 1..Len(cells) :
    /\ r1 < r2
    /\ \E f, g \in DOMAIN cells[r1] :
         /\ cells[r1][f].state = "done"
         /\ cells[r1][g].state \in {"error", "timeout"}
    /\ \E f \in DOMAIN cells[r2] : cells[r2][f].state = "running"

\* What a finished run_sampled session did, in the shape of the results of
\* run_hot_sync and mode_bend_node.
SampledResult ==
  [ err  |-> null,
    warm |-> smp.calls - smp.cnt,
    cnt  |-> smp.cnt,
    more |-> FALSE,
    ret  |-> smp.ret ]

TimelineRun ==
  timeline_main(<<<<"m", ".", "mjs">>, Str(smp.cfg.warmup), Str(smp.cfg.min_runs),
                  Str(smp.cfg.max_runs), Str(smp.cfg.min_secs)>>, smp.durs)

\* C40 as stated: when bench.ts's rule has stopped a session with
\* 1 <= min_runs <= max_runs, the helper of timeline.ts, over the same
\* durations, has made the same number of timed trials and stops too.
\* Violated: the helper goes on while cnt < min_runs OR sum < min_secs,
\* bench.ts only while cnt < min_runs AND sum < min_secs.
C40_AsStated ==
  (smp.pc = "done" /\ 1 <= smp.cfg.min_runs /\ smp.cfg.min_runs <= smp.cfg.max_runs) =>
    /\ TimelineRun.cnt = smp.cnt
    /\ ~TimelineRun.more

\* C40, the divergence reached: bench.ts's rule stopped after min_runs
\* trials with less than min_secs spent and max_runs not reached, and the
\* helper of timeline.ts goes on to another trial.
C40_Diverge ==
  /\ smp.pc = "done"
  /\ 1 <= smp.cfg.min_runs /\ smp.cfg.min_runs <= smp.cfg.max_runs
  /\ smp.cnt = smp.cfg.min_runs
  /\ smp.cnt < smp.cfg.max_runs
  /\ smp.sum < smp.cfg.min_secs
  /\ TimelineRun.cnt = smp.cnt
  /\ TimelineRun.more

C39_State ==
  SHUTTING_DOWN =>
    /\ proc.sig \in Signals
    /\ proc.code = IF proc.sig = "SIGINT" THEN 130 ELSE 143

C39_Step ==
  SHUTTING_DOWN =>
    UNCHANGED <<reqs, ran, cells, cur, had_error, ACTIVE_CHILDREN, proc>>

\* C39: from the moment on_signal has begun the shutdown, no compile or
\* benchmark command is started, no cell changes and the matrix does not
\* move; the process has exited with status 130 on SIGINT and 143 on
\* SIGTERM, and that status stays, whatever bench_all had found or would
\* have returned.
C39_Shutdown == [](C39_State) /\ [][C39_Step]_vars

\* C39 witness: SIGTERM came when a cell had failed and another cell was
\* running: the status is 143 and the running cell is left as it was.
C39_Witness ==
  /\ SHUTTING_DOWN
  /\ proc.sig = "SIGTERM"
  /\ proc.code = 143
  /\ had_error
  /\ \E r \in 1..Len(cells) : \E f \in DOMAIN cells[r] :
       cells[r][f].state = "running"


====
